---------------------------- MODULE Spec2Model ----------------------------
(***************************************************************************)
(* Slack -> Notion link harvester (src/Slack_Link_Harvester.py).           *)
(*                                                                         *)
(* Strings are modelled as sequences of atoms.  An atom is a short piece   *)
(* of text (a delimiter character, a host name, a path word, ...) that no  *)
(* string operation of the program ever cuts in two on the inputs drawn    *)
(* here.  Every string operation of the source (strip, split, rstrip,      *)
(* lower, unescape, quote/unquote, sort, join) is written out on atoms.    *)
(***************************************************************************)
EXTENDS Naturals, Integers, Sequences, FiniteSets, TLC

VARIABLES
    \* ---- URL functions (canonicalize_url, is_scholarly_url) ----
    url_in,      \* raw candidate string handed to canonicalize_url
    url_alt,     \* a second raw string, a stated variation of url_in
    canon,       \* canonicalize_url(url_in)
    canon_alt,   \* canonicalize_url(url_alt)
    recanon,     \* canonicalize_url(canon)
    verdict,     \* is_scholarly_url on url_in and on canon
    variation,   \* how url_alt differs from url_in
    upc,         \* position of the URL pipeline
    \* ---- resolve_best_title_and_doi_for_url ----
    FORCE_API_TITLES,  \* the environment flag read at import
    rpc,         \* stage of the cascade
    rurl,        \* the url argument
    rsoup,       \* soup: the parsed page
    rcur,        \* current_url
    rres,        \* the returned (title, doi) and the stage that returned it
    rlog,        \* the network requests issued so far, in order
    \* ---- main ----
    msgs,        \* list_all_messages(SLACK_CHANNEL_ID)
    mi,          \* index of the message m of the for loop
    mpc,         \* position of main
    urls,        \* extract_urls(m)
    ui,          \* index of u in a "for u in urls" loop
    seen_keys,   \* the in-run dedupe set
    processed,   \* the counter main prints at the end
    emitted,     \* the records handed to notion_upsert, in order
    skips,       \* the records dropped because their key was in seen_keys
    store,       \* the pages of the Notion database
    nlog,        \* the page writes notion_upsert issued, in order
    rejected,    \* the (message, URL) pairs the filter of extract_urls dropped
    pdf,         \* extract_pdf_title_from_bytes: the document it is called on
    ptitle,      \* extract_pdf_title_from_bytes: the (title, doi) it returned
    ppc,         \* extract_pdf_title_from_bytes: "idle", "start", "returned"
    nstr,        \* looks_numericish: the string it is called on
    nrej,        \* looks_numericish: what it returned
    npc          \* looks_numericish: "idle", "start", "returned"

urlvars == <<url_in, url_alt, canon, canon_alt, recanon, verdict, variation, upc>>

resvars == <<FORCE_API_TITLES, rpc, rurl, rsoup, rcur, rres, rlog>>

mainvars == <<msgs, mi, mpc, urls, ui, seen_keys, processed, emitted, skips, store, nlog, rejected>>

pdfvars == <<pdf, ptitle, ppc>>

numvars == <<nstr, nrej, npc>>

vars == <<urlvars, resvars, mainvars, pdfvars, numvars>>

-----------------------------------------------------------------------------
(* Bounds of the input space *)

MaxPathLen == 3
MaxPairs == 2

-----------------------------------------------------------------------------
(* Generic sequence helpers (Python str methods on atom sequences) *)

\* Optional[str] None
None == <<"<None>">>

Range(s) == {s[i] : i \in 1..Len(s)}

Last(s) == s[Len(s)]

\* str.find for a set of one-atom needles: first index, 0 when absent
FirstIdx(s, cs) ==
    IF \E i \in 1..Len(s) : s[i] \in cs
    THEN CHOOSE i \in 1..Len(s) : s[i] \in cs /\ \A j \in 1..(i-1) : s[j] \notin cs
    ELSE 0

\* s.split(sep, 1)[0]
Before(s, sep) ==
    LET i == FirstIdx(s, {sep}) IN IF i = 0 THEN s ELSE SubSeq(s, 1, i-1)

\* what follows the first sep ("" when absent)
After(s, sep) ==
    LET i == FirstIdx(s, {sep}) IN IF i = 0 THEN <<>> ELSE SubSeq(s, i+1, Len(s))

RECURSIVE RStrip(_, _)
RStrip(s, cs) ==
    IF s = <<>> THEN s
    ELSE IF Last(s) \in cs THEN RStrip(SubSeq(s, 1, Len(s)-1), cs)
    ELSE s

RECURSIVE LStrip(_, _)
LStrip(s, cs) ==
    IF s = <<>> THEN s
    ELSE IF Head(s) \in cs THEN LStrip(Tail(s), cs)
    ELSE s

Strip(s, cs) == LStrip(RStrip(s, cs), cs)

RECURSIVE Split(_, _)
Split(s, sep) ==
    LET i == FirstIdx(s, {sep})
    IN IF i = 0 THEN <<s>>
       ELSE <<SubSeq(s, 1, i-1)>> \o Split(SubSeq(s, i+1, Len(s)), sep)

RECURSIVE Join(_, _)
Join(parts, sep) ==
    IF parts = <<>> THEN <<>>
    ELSE IF Len(parts) = 1 THEN parts[1]
    ELSE parts[1] \o sep \o Join(Tail(parts), sep)

WHITESPACE == {" "}

-----------------------------------------------------------------------------
(* Constants of the program *)

TRACKING_KEYS == {
    "utm_source","utm_medium","utm_campaign","utm_term","utm_content",
    "utm_name","utm_cid","utm_reader","utm_viz_id","utm_pubreferrer",
    "utm_swu","ga_source","ga_medium","ga_campaign","ga_content",
    "fbclid","gclid","mc_cid","mc_eid","igshid","mkt_tok",
    "uuid","via","src","si","s","login","returnurl","redirect","ref" }

SCHOLAR_HOSTS == {
    "doi.org","dx.doi.org","doi.wiley.com",
    "biorxiv.org","www.biorxiv.org","www.medrxiv.org","arxiv.org",
    "nature.com","www.nature.com","science.org","www.science.org",
    "cell.com","www.cell.com","sciencedirect.com","www.sciencedirect.com",
    "springer.com","link.springer.com","onlinelibrary.wiley.com","academic.oup.com",
    "aacrjournals.org","jamanetwork.com","pnas.org","www.pnas.org","bmj.com","www.bmj.com",
    "thelancet.com","tandfonline.com","www.tandfonline.com","frontiersin.org","www.frontiersin.org",
    "asm.org","journals.asm.org","asmscience.org","mdpi.com","www.mdpi.com","royalsocietypublishing.org",
    "sciencemag.org","www.sciencemag.org","jci.org","www.jci.org","embopress.org","www.embopress.org",
    "journals.sagepub.com","plos.org","journals.plos.org","pmc.ncbi.nlm.nih.gov","pubmed.ncbi.nlm.nih.gov" }

NON_ARTICLE_EXTS ==
    {".jpg",".jpeg",".png",".gif",".webp",".svg",".mp4",".mov",".avi",".mkv",".webm",".mp3"}

SKIP_HOSTS == {"x.com","twitter.com","www.twitter.com","youtube.com","www.youtube.com","youtu.be",
               "facebook.com","www.facebook.com","instagram.com","www.instagram.com",
               "reddit.com","www.reddit.com"}

\* the characters of u.rstrip(").,]}>\"'")
TRAILING_PUNCT == {")", ".", ",", "]", "}", ">", "\"", "'"}

\* path segments that mark an article in is_scholarly_url
ARTICLE_SEGMENTS == {"doi", "article", "articles", "abs", "fulltext", "content"}

-----------------------------------------------------------------------------
(* Atoms and their character-level properties *)

SchemeAtoms == {"https", "http", "HTTPS", "HTTP"}

\* str.lower() of one atom
LowerAtom(a) ==
    CASE a = "HTTPS" -> "https"
      [] a = "HTTP" -> "http"
      [] a = "EXAMPLE.COM" -> "example.com"
      [] a = "Twitter.com" -> "twitter.com"
      [] a = "WWW.NATURE.COM" -> "www.nature.com"
      [] a = ".JPG" -> ".jpg"
      [] a = ".PDF" -> ".pdf"
      [] OTHER -> a

\* the upper-case spelling of a scheme or host atom (input variation only)
UpperAtom(a) ==
    CASE a = "https" -> "HTTPS"
      [] a = "http" -> "HTTP"
      [] a = "example.com" -> "EXAMPLE.COM"
      [] a = "twitter.com" -> "Twitter.com"
      [] a = "www.nature.com" -> "WWW.NATURE.COM"
      [] OTHER -> a

Lower(s) == [i \in 1..Len(s) |-> LowerAtom(s[i])]

\* html.unescape of one atom: one level of escaping goes
UnescapeAtom(a) ==
    IF a = "&amp;" THEN "&" ELSE IF a = "&amp;amp;" THEN "&amp;" ELSE a

html_unescape(s) == [i \in 1..Len(s) |-> UnescapeAtom(s[i])]

\* urllib.parse.quote_plus of one atom: letters, digits and "_.-~" are safe
QuoteAtom(a) ==
    CASE a = "/" -> "%2F"
      [] a = ")" -> "%29"
      [] a = "," -> "%2C"
      [] a = "=" -> "%3D"
      [] a = ">" -> "%3E"
      [] a = " " -> "+"
      [] OTHER -> a

\* urllib.parse.unquote (with "+" -> " ") of one atom, as parse_qsl applies it
UnquoteAtom(a) ==
    CASE a = "%2F" -> "/"
      [] a = "%29" -> ")"
      [] a = "%2C" -> ","
      [] a = "%3D" -> "="
      [] a = "%3E" -> ">"
      [] a = "+" -> " "
      [] OTHER -> a

\* Atoms that can occur in a decoded query key or value, in the order Python
\* compares the strings they stand for (code point of the first character;
\* no atom of this list is a prefix of another one).
AtomOrder == << " ", ")", ",", ".", "/", "1", "2", "=", ">", "a", "b", "fig",
                "homepage", "img", "ref", "utm_source", "x" >>

Rank(a) ==
    IF \E i \in 1..Len(AtomOrder) : AtomOrder[i] = a
    THEN CHOOSE i \in 1..Len(AtomOrder) : AtomOrder[i] = a
    ELSE Len(AtomOrder) + 1

\* Python's str <= str on atom sequences
RECURSIVE StrLeq(_, _)
StrLeq(a, b) ==
    IF a = <<>> THEN TRUE
    ELSE IF b = <<>> THEN FALSE
    ELSE IF Rank(a[1]) < Rank(b[1]) THEN TRUE
    ELSE IF Rank(a[1]) > Rank(b[1]) THEN FALSE
    ELSE StrLeq(Tail(a), Tail(b))

\* Python's tuple <= tuple on (key, value) pairs
PairLeq(p, q) == IF p.k = q.k THEN StrLeq(p.v, q.v) ELSE StrLeq(p.k, q.k)

RECURSIVE InsertSorted(_, _)
InsertSorted(p, s) ==
    IF s = <<>> THEN <<p>>
    ELSE IF PairLeq(p, Head(s)) /\ p # Head(s) THEN <<p>> \o s
    ELSE <<Head(s)>> \o InsertSorted(p, Tail(s))

\* sorted(q_pairs): stable, ascending
RECURSIVE sorted(_)
sorted(s) ==
    IF s = <<>> THEN <<>>
    ELSE InsertSorted(s[Len(s)], sorted(SubSeq(s, 1, Len(s)-1)))

-----------------------------------------------------------------------------
(* urllib.parse on atom sequences *)

\* urlparse(u): scheme up to ":", netloc after "//" up to the first of "/?#",
\* then the fragment is cut at the first "#" and the query at the first "?".
\* The atom "://" is the ":" ending the scheme followed by "//".  A string
\* that does not start with a scheme has neither scheme nor netloc.
urlparse(u) ==
    LET hasScheme == Len(u) >= 2 /\ u[1] \in SchemeAtoms /\ u[2] = "://"
        rest0  == IF hasScheme THEN SubSeq(u, 3, Len(u)) ELSE u
        nEnd   == FirstIdx(rest0, {"/", "?", "#"})
        netloc == IF ~hasScheme THEN <<>>
                  ELSE IF nEnd = 0 THEN rest0 ELSE SubSeq(rest0, 1, nEnd-1)
        rest1  == IF ~hasScheme THEN rest0
                  ELSE IF nEnd = 0 THEN <<>> ELSE SubSeq(rest0, nEnd, Len(rest0))
        rest2  == Before(rest1, "#")
    IN [ scheme   |-> IF hasScheme THEN <<LowerAtom(u[1])>> ELSE <<>>,
         netloc   |-> netloc,
         path     |-> Before(rest2, "?"),
         query    |-> After(rest2, "?"),
         fragment |-> After(rest1, "#") ]

unquote(s) == [i \in 1..Len(s) |-> UnquoteAtom(s[i])]

quote_plus(s) == [i \in 1..Len(s) |-> QuoteAtom(s[i])]

\* one name=value piece of parse_qsl(qs, keep_blank_values=True)
QslPair(piece) ==
    [ k |-> unquote(Before(piece, "=")), v |-> unquote(After(piece, "=")) ]

RECURSIVE QslPairs(_)
QslPairs(pieces) ==
    IF pieces = <<>> THEN <<>>
    ELSE IF Head(pieces) = <<>> THEN QslPairs(Tail(pieces))
    ELSE <<QslPair(Head(pieces))>> \o QslPairs(Tail(pieces))

\* parse_qsl(query, keep_blank_values=True): split on "&", skip empty
\* pieces, split each piece at its first "=", unquote both sides
parse_qsl(q) == IF q = <<>> THEN <<>> ELSE QslPairs(Split(q, "&"))

RECURSIVE urlencode(_)
\* urlencode(pairs, doseq=True): quote_plus(k) "=" quote_plus(v), joined by "&"
urlencode(pairs) ==
    IF pairs = <<>> THEN <<>>
    ELSE LET one == quote_plus(Head(pairs).k) \o <<"=">> \o quote_plus(Head(pairs).v)
         IN IF Len(pairs) = 1 THEN one
            ELSE one \o <<"&">> \o urlencode(Tail(pairs))

\* urlunparse((scheme, netloc, path, "", query, ""))
urlunparse(scheme, netloc, path, query) ==
    scheme \o <<"://">> \o netloc
           \o (IF path # <<>> /\ Head(path) # "/" THEN <<"/">> ELSE <<>>) \o path
           \o (IF query # <<>> THEN <<"?">> \o query ELSE <<>>)

IsTrackingKey(k) == Len(k) = 1 /\ k[1] \in TRACKING_KEYS

NotTracking(p) == ~IsTrackingKey(p.k)

-----------------------------------------------------------------------------
(* canonicalize_url *)

\* the "<url>" / "<url|label>" unwrapping, then the bare "|" cut
Unwrap(u) ==
    LET u1 == IF u # <<>> /\ Head(u) = "<" /\ ">" \in Range(u)
              THEN Before(SubSeq(u, 2, FirstIdx(u, {">"}) - 1), "|")
              ELSE u
    IN IF "|" \in Range(u1) THEN Strip(Before(u1, "|"), WHITESPACE) ELSE u1

\* the path normalisation: all trailing "/" go unless the path is the root
NormPath(path) ==
    IF path # <<>> /\ Last(path) = "/" /\ Len(path) > 1
    THEN RStrip(path, {"/"})
    ELSE path

\* the default-port removal on the lower-cased netloc
NormNetloc(scheme, netloc) ==
    IF netloc # <<>> /\ Last(netloc) = ":80" /\ scheme = <<"http">>
    THEN SubSeq(netloc, 1, Len(netloc)-1)
    ELSE IF netloc # <<>> /\ Last(netloc) = ":443" /\ scheme = <<"https">>
    THEN SubSeq(netloc, 1, Len(netloc)-1)
    ELSE netloc

\* q_pairs without the TRACKING_KEYS filter
NormQuery_keep_tracking(query) == urlencode(sorted(parse_qsl(query)))

\* q_pairs and its serialisation
NormQuery(query) == urlencode(sorted(SelectSeq(parse_qsl(query), NotTracking)))

canonicalize_url(u) ==
    IF u = <<>> \/ u = None THEN None
    ELSE
    LET u1 == Strip(html_unescape(u), WHITESPACE)
        u2 == RStrip(Unwrap(u1), TRAILING_PUNCT)
        p  == urlparse(u2)
    IN IF p.scheme = <<>> \/ p.netloc = <<>> THEN None
       ELSE urlunparse(p.scheme,
                       NormNetloc(p.scheme, Lower(p.netloc)),
                       NormPath(p.path),
                       NormQuery(p.query))

-----------------------------------------------------------------------------
(* DOI_RE and is_scholarly_url *)

\* atoms all of whose characters are in the class [-._;()/:A-Z0-9] (re.I)
DoiClassAtom(a) ==
    a \notin {"?", "&", "=", "#", "<", ">", "|", ",", " ", "&amp;", "://",
              "%2F", "%29", "%2C", "%3D", "%3E", "+", "\"", "'", "]", "}"}

\* the atom spelling "10.NNNN" (10\.\d{4,9})
DoiPrefixAtoms == {"10.1234", "10.1101"}

DoiStartsAt(s, i) ==
    /\ i + 2 <= Len(s)
    /\ s[i] \in DoiPrefixAtoms
    /\ s[i+1] = "/"
    /\ DoiClassAtom(s[i+2])

RECURSIVE DoiEnd(_, _)
\* greedy [-._;()/:A-Z0-9]+ : the last index of the match that covers j
DoiEnd(s, j) == IF j + 1 <= Len(s) /\ DoiClassAtom(s[j+1]) THEN DoiEnd(s, j+1) ELSE j

\* DOI_RE.search(s): the first match's text, None when there is none
DOI_RE_search(s) ==
    IF \E i \in 1..Len(s) : DoiStartsAt(s, i)
    THEN LET i == CHOOSE k \in 1..Len(s) :
                     DoiStartsAt(s, k) /\ \A j \in 1..(k-1) : ~DoiStartsAt(s, j)
         IN SubSeq(s, i, DoiEnd(s, i+2))
    ELSE None

\* any(seg in path for seg in ("/doi/", "/article/", ...))
HasArticleSegment(path) ==
    \E i \in 1..Len(path) :
        /\ i + 2 <= Len(path)
        /\ path[i] = "/" /\ path[i+1] \in ARTICLE_SEGMENTS /\ path[i+2] = "/"

\* host.endswith(".slack.com")
EndsWithSlackCom(host) == host # <<>> /\ Last(host) \in {"team.slack.com", "files.slack.com"}

is_scholarly_url(url) ==
    LET p    == urlparse(url)
        host == Lower(p.netloc)
        path == Lower(p.path)
    IN IF (Len(host) = 1 /\ host[1] \in SKIP_HOSTS) \/ EndsWithSlackCom(host) THEN FALSE
       ELSE IF path # <<>> /\ Last(path) \in NON_ARTICLE_EXTS THEN FALSE
       ELSE IF DOI_RE_search(url) # None THEN TRUE
       ELSE IF Len(host) = 1 /\ host[1] \in SCHOLAR_HOSTS THEN TRUE
       ELSE HasArticleSegment(path)

-----------------------------------------------------------------------------
(* Titles: clean_text_strip_html, normalize_title_for_key, looks_numericish *)

\* <<letters, digits, characters>> of one atom
AtomStats(a) ==
    CASE a \in {"Protein", "folding", "protein", "Article", "article"} -> <<7, 0, 7>>
      [] a \in {"Paper", "paper", "https", "HTTPS"} -> <<5, 0, 5>>
      [] a \in {"http", "HTTP", "abcd"} -> <<4, 0, 4>>
      [] a \in {"Abc", "abc", "PDF", "pdf", "doi", "Doi", "ref", "img", "fig"} -> <<3, 0, 3>>
      [] a \in {"on", "AB"} -> <<2, 0, 2>>
      [] a \in {"A", "a", "b", "x"} -> <<1, 0, 1>>
      [] a \in {"S0092", "s0092"} -> <<1, 4, 5>>
      [] a = "123" -> <<0, 3, 3>>
      [] a \in {"cell", "Cell", "FEMS"} -> <<4, 0, 4>>
      [] a \in {"Brain", "brain", "slack", "label"} -> <<5, 0, 5>>
      [] a \in {"femsre", "Femsre"} -> <<6, 0, 6>>
      [] a \in {"fulltext", "Fulltext"} -> <<8, 0, 8>>
      [] a \in {"content", "Content"} -> <<7, 0, 7>>
      [] a = "www.cell.com" -> <<10, 0, 12>>
      [] a = "academic.oup.com" -> <<14, 0, 16>>
      [] a = "team.slack.com" -> <<12, 0, 14>>
      [] a \in {"archives", "Archives"} -> <<8, 0, 8>>
      [] a \in {"p", "P"} -> <<1, 0, 1>>
      [] a \in {"1", "2"} -> <<0, 1, 1>>
      [] a = "10" -> <<0, 2, 2>>
      [] a = "123456" -> <<0, 6, 6>>
      [] a = "1234567890" -> <<0, 10, 10>>
      [] a \in {"10.1234", "10.1101"} -> <<0, 6, 7>>
      [] a = "2024.01.05" -> <<0, 8, 10>>
      [] a = ":8080" -> <<0, 4, 5>>
      [] a \in {":80"} -> <<0, 2, 3>>
      [] a \in {":443"} -> <<0, 3, 4>>
      [] a = "192.168.100.200" -> <<0, 12, 15>>
      [] a \in {"example.com", "EXAMPLE.COM", "twitter.com", "Twitter.com"} -> <<10, 0, 11>>
      [] a \in {"www.nature.com", "WWW.NATURE.COM"} -> <<12, 0, 14>>
      [] a = "www.biorxiv.org" -> <<13, 0, 15>>
      [] a = "doi.org" -> <<6, 0, 7>>
      [] a = "homepage" -> <<8, 0, 8>>
      [] a = "utm_source" -> <<9, 0, 10>>
      [] a = "<untitled>" -> <<8, 0, 10>>
      [] a = "<i>" -> <<1, 0, 3>>
      [] a = "</i>" -> <<1, 0, 4>>
      [] a \in {".pdf", ".jpg", ".png", ".mp4", ".PDF", ".JPG"} -> <<3, 0, 4>>
      [] a = "://" -> <<0, 0, 3>>
      [] a = "&amp;" -> <<3, 0, 5>>
      [] a = "&amp;amp;" -> <<6, 0, 10>>
      [] a = "letters300" -> <<300, 0, 300>>
      [] a = "ABSTRACT" -> <<8, 0, 8>>
      [] a = "Smith J, Doe A" -> <<10, 0, 14>>
      [] a = "A Novel Method for Protein Folding Prediction" -> <<39, 0, 45>>
      [] a = "Received 3 Jan 2023" -> <<11, 5, 19>>
      [] a = "2023 45 112 9981" -> <<0, 13, 16>>
      [] a = "Open Access" -> <<10, 0, 11>>
      [] a \in {"%2F", "%29", "%2C", "%3D", "%3E"} -> <<1, 1, 3>>
      [] OTHER -> <<0, 0, 1>>

RECURSIVE SumStat(_, _)
SumStat(s, k) == IF s = <<>> THEN 0 ELSE AtomStats(Head(s))[k] + SumStat(Tail(s), k)

Letters(s) == SumStat(s, 1)
Digits(s) == SumStat(s, 2)
\* len(s)
CharLen(s) == SumStat(s, 3)

RECURSIVE TakeChars(_, _)
\* s[:n], for strings in which character n falls on an atom boundary
TakeChars(s, n) ==
    IF s = <<>> THEN <<>>
    ELSE IF AtomStats(Head(s))[3] > n THEN <<>>
    ELSE <<Head(s)>> \o TakeChars(Tail(s), n - AtomStats(Head(s))[3])

\* an atom that spells one complete markup tag
IsTagAtom(a) == a \in {"<i>", "</i>", "<untitled>"}

\* BeautifulSoup(s, "html.parser").get_text(" "): the text nodes, joined by " "
StripTags(s) == [i \in 1..Len(s) |-> IF IsTagAtom(s[i]) THEN " " ELSE s[i]]

RECURSIVE Squeeze(_)
\* runs of whitespace become one space
Squeeze(s) ==
    IF Len(s) < 2 THEN s
    ELSE IF s[1] \in WHITESPACE /\ s[2] \in WHITESPACE THEN Squeeze(Tail(s))
    ELSE <<Head(s)>> \o Squeeze(Tail(s))

\* " ".join(s.split())
CollapseWs(s) == Squeeze(Strip(s, WHITESPACE))

clean_text_strip_html(s) ==
    IF s = None THEN <<>>
    ELSE LET u == html_unescape(s)
         IN CollapseWs(IF \E i \in 1..Len(u) : IsTagAtom(u[i]) THEN StripTags(u) ELSE u)

\* str.lower() of the atoms of a title
LowerTitleAtom(a) ==
    CASE a = "Protein" -> "protein"
      [] a = "Article" -> "article"
      [] a = "Paper" -> "paper"
      [] a = "Abc" -> "abc"
      [] a = "PDF" -> "pdf"
      [] a = "Doi" -> "doi"
      [] a = "A" -> "a"
      [] a = "AB" -> "ab"
      [] a = "S0092" -> "s0092"
      [] a = "Brain" -> "brain"
      [] OTHER -> LowerAtom(a)

\* str.title() of one word atom
TitleAtom(a) ==
    CASE a = "paper" -> "Paper"
      [] a = "abc" -> "Abc"
      [] a = "article" -> "Article"
      [] a = "doi" -> "Doi"
      [] a = "a" -> "A"
      [] a = "fulltext" -> "Fulltext"
      [] a = "content" -> "Content"
      [] a = "femsre" -> "Femsre"
      [] a = "cell" -> "Cell"
      [] OTHER -> a

normalize_title_for_key(s) ==
    LET c == clean_text_strip_html(s)
    IN CollapseWs([i \in 1..Len(c) |-> LowerTitleAtom(c[i])])

\* re.match(r'^\d{4}\.\d{2}\.\d{2}', t)
StartsWithDateStamp(t) == t # <<>> /\ Head(t) = "2024.01.05"

\* atoms made of capitals only
CapsAtoms == {"A", "P", "AB", "PDF", "FEMS", "HTTP", "HTTPS"}

\* an atom made of digits only
DigitsOnly(a) == AtomStats(a)[1] = 0 /\ AtomStats(a)[2] = AtomStats(a)[3]

\* the digits an atom starts with
LeadDigits(a) ==
    CASE DigitsOnly(a) -> AtomStats(a)[3]
      [] a = "2024.01.05" -> 4
      [] a = "192.168.100.200" -> 3
      [] a \in {"10.1234", "10.1101"} -> 2
      [] OTHER -> 0

RECURSIVE DigitRun(_)
\* the digits a string starts with
DigitRun(t) ==
    IF t = <<>> THEN 0
    ELSE IF DigitsOnly(Head(t)) THEN LeadDigits(Head(t)) + DigitRun(Tail(t))
    ELSE LeadDigits(Head(t))

RECURSIVE ShortCodeFrom(_, _)
\* [A-Z]{1,6}\d{2,} from the point where caps capitals have been read
ShortCodeFrom(t, caps) ==
    IF t = <<>> THEN FALSE
    ELSE IF Head(t) \in CapsAtoms
    THEN caps + AtomStats(Head(t))[3] <= 6
         /\ ShortCodeFrom(Tail(t), caps + AtomStats(Head(t))[3])
    ELSE IF Head(t) = "S0092" THEN caps + 1 <= 6
    ELSE caps >= 1 /\ DigitRun(t) >= 2

\* re.match(r'^[A-Z]{1,6}\d{2,}', t): one to six capitals, then two digits
StartsWithShortCode(t) == ShortCodeFrom(t, 0)

\* the test with "> 0.6"
DigitShareAtLeast60_strict(t) == 10 * Digits(t) > 6 * (Letters(t) + Digits(t))

\* digits/len(core) >= 0.6
DigitShareAtLeast60(t) == 10 * Digits(t) >= 6 * (Letters(t) + Digits(t))

looks_numericish(s) ==
    IF s = None THEN TRUE
    ELSE LET t == Strip(s, WHITESPACE)
         IN IF t = <<>> THEN TRUE
            ELSE IF Letters(t) + Digits(t) = 0 THEN TRUE
            ELSE DigitShareAtLeast60(t) \/ StartsWithDateStamp(t) \/ StartsWithShortCode(t)

-----------------------------------------------------------------------------
(* Network responses: titles and DOIs that a remote payload can carry *)

TGood == <<"Protein", " ", "folding">>
TNumeric == <<"1234567890">>
TMarkup == <<"<untitled>">>
\* a title whose "&" was escaped twice
TEscaped == <<"Protein", " ", "&amp;amp;", " ", "folding">>

\* a title of 301 characters: 300 letters (written as one atom) and one more
TLong == <<"letters300", "x">>

\* the title text of an API payload or of a PDF's metadata
ApiTitles == {TGood, TNumeric, TMarkup}

\* a request that failed (exception, non-200 status, payload without a title)
\* is the response None
ApiResponses == {None} \cup ApiTitles

D1 == <<"10.1234", "/", "abc">>

\* (title, DOI) items of a Crossref works query
SearchResponses ==
    { [t |-> None, d |-> None], [t |-> TGood, d |-> D1], [t |-> TGood, d |-> None],
      [t |-> TNumeric, d |-> None], [t |-> TMarkup, d |-> D1] }

\* content types a HEAD (or the GET after a 3xx) can report; None is a
\* request that raised
ContentTypes == {None, <<"text/html">>, <<"application/pdf">>, <<"image/png">>}

\* one run of quick_content_type: the HEAD, the GET when the HEAD said 3xx
ProbeOutcomes == [get : BOOLEAN, ct : ContentTypes]

ProbeCalls(o) == IF o.get THEN <<"probe_head", "probe_get">> ELSE <<"probe_head">>

quick_content_type(o) == o.ct

\* is_direct_pdf_url(url), o the outcome of its quick_content_type call
is_direct_pdf_url(url, o) ==
    quick_content_type(o) = <<"application/pdf">> \/ LowerAtom(Last(url)) = ".pdf"

\* extract_pdf_title_from_bytes on a downloaded body: (None, None), a title
\* from the metadata or the first page, or a Crossref title with the DOI
\* found in the text
PdfResults ==
    { [t |-> None, d |-> None], [t |-> TGood, d |-> None], [t |-> TNumeric, d |-> None],
      [t |-> TEscaped, d |-> None], [t |-> TGood, d |-> D1] }

\* fetch_pdf_title_direct: a failed download is (None, None)
fetch_pdf_title_direct(resp) == resp

\* the requests of one PDF title fetch: the download, and the Crossref
\* lookup of a DOI found in the text
PdfCalls(resp) == IF resp.d # None THEN <<"pdf_get", "pdf_crossref">> ELSE <<"pdf_get">>

biorxiv_title_from_api(resp) ==
    IF resp = None THEN None
    ELSE LET t == clean_text_strip_html(resp)
         IN IF t # <<>> THEN TakeChars(t, 300) ELSE None

\* retries of try_crossref_title
CROSSREF_RETRIES == 2

\* what the Crossref works endpoint does over one call of
\* try_crossref_title: the first r.fails requests fail (exception, status
\* other than 200, payload without a title), every later one carries r.t
CrossrefResponses == [fails : 0..CROSSREF_RETRIES + 1, t : ApiResponses]

\* the title one response gives: "t = ' '.join(...).strip(); if t: return t[:300]"
CrossrefTitle(resp) ==
    IF resp = None THEN None
    ELSE IF Strip(resp, WHITESPACE) # <<>> THEN TakeChars(Strip(resp, WHITESPACE), 300)
    ELSE None

\* the loop that goes round once more
OutOfAttempts_late(i) == i > CROSSREF_RETRIES + 1

\* "for i in range(retries+1)" is over at attempt i (from 0)
OutOfAttempts(i) == i > CROSSREF_RETRIES

RECURSIVE CrossrefLoop(_, _)
\* the loop from attempt i on: the title returned and the requests issued
CrossrefLoop(r, i) ==
    IF OutOfAttempts(i) THEN [t |-> None, n |-> 0]
    ELSE IF i >= r.fails /\ CrossrefTitle(r.t) # None
    THEN [t |-> CrossrefTitle(r.t), n |-> 1]
    ELSE [t |-> CrossrefLoop(r, i + 1).t, n |-> CrossrefLoop(r, i + 1).n + 1]

try_crossref_title(r) == CrossrefLoop(r, 0).t

\* the number of requests that call issues
CrossrefRequests(r) == CrossrefLoop(r, 0).n

\* crossref_search_title, crossref_struct_title, crossref_search_in_container
crossref_search(resp) ==
    IF resp.t = None THEN [t |-> None, d |-> None]
    ELSE [t |-> TakeChars(resp.t, 300), d |-> resp.d]

pubmed_title_by_jvp(resp) ==
    IF resp = None THEN None
    ELSE LET t == clean_text_strip_html(resp)
         IN IF t # <<>> THEN TakeChars(t, 300) ELSE None

\* Python truthiness of an Optional[str]
Truthy(x) == x # None /\ x # <<>>

\* a or b
Or(a, b) == IF Truthy(a) THEN a ELSE b

-----------------------------------------------------------------------------
(* infer_from_url *)

\* the non-empty "/"-separated segments of a path
PathParts(path) == SelectSeq(Split(path, "/"), LAMBDA seg : seg # <<>>)

\* leaf.rsplit(".", 1)[0]
RSplitDot(leaf) ==
    IF \E i \in 1..Len(leaf) : leaf[i] \in {".", ".pdf", ".jpg", ".png", ".mp4", ".PDF", ".JPG"}
    THEN LET i == CHOOSE k \in 1..Len(leaf) :
                     /\ leaf[k] \in {".", ".pdf", ".jpg", ".png", ".mp4", ".PDF", ".JPG"}
                     /\ \A j \in (k+1)..Len(leaf) :
                            leaf[j] \notin {".", ".pdf", ".jpg", ".png", ".mp4", ".PDF", ".JPG"}
         IN SubSeq(leaf, 1, i-1)
    ELSE leaf

\* leaf.replace("-", " ").replace("_", " ")
DashesToSpaces(leaf) == [i \in 1..Len(leaf) |-> IF leaf[i] \in {"-", "_"} THEN " " ELSE leaf[i]]

INFER_KEYS == <<"title", "headline", "paper", "article", "name">>

\* parse_qs(p.query): the pairs with a non-blank value
QsPairs(query) == SelectSeq(parse_qsl(query), LAMBDA p : p.v # <<>>)

HasQsKey(pairs, key) == \E i \in 1..Len(pairs) : pairs[i].k = <<key>>

FirstQsValue(pairs, key) ==
    pairs[CHOOSE i \in 1..Len(pairs) :
              pairs[i].k = <<key>> /\ \A j \in 1..(i-1) : pairs[j].k # <<key>>].v

infer_from_url(url) ==
    LET p     == urlparse(url)
        q     == QsPairs(p.query)
        parts == PathParts(p.path)
    IN IF \E n \in 1..Len(INFER_KEYS) : HasQsKey(q, INFER_KEYS[n])
       THEN LET n == CHOOSE k \in 1..Len(INFER_KEYS) :
                         /\ HasQsKey(q, INFER_KEYS[k])
                         /\ \A j \in 1..(k-1) : ~HasQsKey(q, INFER_KEYS[j])
            IN clean_text_strip_html(unquote(FirstQsValue(q, INFER_KEYS[n])))
       ELSE IF parts # <<>>
       THEN LET leaf == RSplitDot(parts[Len(parts)])
                c    == clean_text_strip_html(unquote(DashesToSpaces(leaf)))
            IN [i \in 1..Len(c) |-> TitleAtom(c[i])]
       ELSE IF p.netloc = <<>> THEN <<>> ELSE <<Head(p.netloc)>>

\* clean_text_strip_html(infer_from_url(url) or url)
InferredTitle(url) == clean_text_strip_html(Or(infer_from_url(url), url))

-----------------------------------------------------------------------------
(* The parsed page (soup) and the helpers that read it *)

\* what one page declares: the href of <link rel=canonical>, the content of
\* the <meta> tags, the JSON-LD object, <title>, <h1>
NoJsonLd == [type |-> "none", headline |-> None, doi |-> None]

BlankPage ==
    [ canonical |-> None, citation_title |-> None, dc_title |-> None,
      og_title |-> None, citation_journal_title |-> None,
      citation_doi |-> None, jsonld |-> NoJsonLd, title |-> None, h1 |-> None ]

\* the exception an unguarded statement lets escape
Raised == <<"<raise>">>

\* soup.get_text(" ", strip=True)
PageText(soup) ==
    (IF soup.title = None THEN <<>> ELSE soup.title) \o <<" ">>
        \o (IF soup.h1 = None THEN <<>> ELSE soup.h1)

find_doi_in_soup(soup) ==
    LET m == IF Truthy(soup.citation_doi) THEN DOI_RE_search(soup.citation_doi) ELSE None
        j == IF soup.jsonld.doi # None THEN DOI_RE_search(soup.jsonld.doi) ELSE None
    IN IF m # None THEN m ELSE IF j # None THEN j ELSE DOI_RE_search(PageText(soup))

\* hunt() on the JSON-LD object: (obj.get("@type") or "").lower() raises
\* when @type is a list
find_title_in_jsonld(soup) ==
    IF soup.jsonld.type = "none" THEN None
    ELSE IF soup.jsonld.type = "list" THEN Raised
    ELSE IF soup.jsonld.type \in {"article", "scholarlyarticle", "report", "chapter"}
            /\ soup.jsonld.headline # None
    THEN LET t == clean_text_strip_html(soup.jsonld.headline)
         IN IF t # <<>> THEN t ELSE None
    ELSE None

\* safe_meta(soup, ["citation_title","dc.title","DC.title","prism.title"])
safe_meta(soup) ==
    IF Truthy(soup.citation_title) THEN clean_text_strip_html(soup.citation_title)
    ELSE IF Truthy(soup.dc_title) THEN clean_text_strip_html(soup.dc_title)
    ELSE None

\* safe_meta(soup, ["citation_journal_title"])
safe_meta_journal(soup) ==
    IF Truthy(soup.citation_journal_title)
    THEN clean_text_strip_html(soup.citation_journal_title) ELSE None

\* the SCHOLAR_META_CANDIDATES loop: the first candidate whose cleaned
\* content is non-empty
ScholarMetaTitle(soup) ==
    LET c1 == IF Truthy(soup.citation_title) THEN clean_text_strip_html(soup.citation_title) ELSE <<>>
        c2 == IF Truthy(soup.dc_title) THEN clean_text_strip_html(soup.dc_title) ELSE <<>>
        c3 == IF Truthy(soup.og_title) THEN clean_text_strip_html(soup.og_title) ELSE <<>>
    IN IF c1 # <<>> THEN c1 ELSE IF c2 # <<>> THEN c2 ELSE c3

U_Alt == <<"https", "://", "example.com", "/", "article", "/", "abc">>

\* the pages a GET of url can return
PagesAt(url) == {
    BlankPage,
    [BlankPage EXCEPT !.citation_title = TGood],
    [BlankPage EXCEPT !.citation_title = TLong],
    [BlankPage EXCEPT !.citation_title = TMarkup, !.title = TGood],
    [BlankPage EXCEPT !.dc_title = TGood],
    [BlankPage EXCEPT !.og_title = TNumeric],
    [BlankPage EXCEPT !.jsonld = [type |-> "article", headline |-> TGood, doi |-> D1]],
    [BlankPage EXCEPT !.jsonld = [type |-> "list", headline |-> TGood, doi |-> None]],
    [BlankPage EXCEPT !.jsonld = [type |-> "website", headline |-> TGood, doi |-> None], !.h1 = TGood],
    [BlankPage EXCEPT !.title = TGood, !.citation_doi = D1],
    [BlankPage EXCEPT !.title = TMarkup, !.h1 = TNumeric],
    [BlankPage EXCEPT !.citation_doi = D1],
    [BlankPage EXCEPT !.citation_journal_title = <<"Brain">>],
    [BlankPage EXCEPT !.canonical = url, !.title = TGood],
    [BlankPage EXCEPT !.canonical = <<" ">> \o U_Alt \o <<"/">>] }

\* fetch_and_parse(url): ok is false for a request that raised (connection
\* error, timeout, raise_for_status); resp.url is the requested URL
fetch_and_parse(url) ==
    [ok : {FALSE}, soup : {BlankPage}, url : {url}]
        \cup [ok : {TRUE}, soup : PagesAt(url), url : {url}]

-----------------------------------------------------------------------------
(* The network calls of the cascade: every result a call can have, with   *)
(* the requests it issued                                                 *)

Repeat(x, n) == [i \in 1..n |-> x]

TryCrossref ==
    {[t |-> try_crossref_title(r), log |-> Repeat("crossref_doi", CrossrefRequests(r))] :
        r \in CrossrefResponses}

Biorxiv ==
    {[t |-> biorxiv_title_from_api(r), log |-> <<"biorxiv_api">>] : r \in ApiResponses}

\* biorxiv_title_from_api(doi) or try_crossref_title(doi)
BiorxivOrCrossref ==
    UNION {IF Truthy(b.t) THEN {b}
           ELSE {[t |-> c.t, log |-> b.log \o c.log] : c \in TryCrossref} : b \in Biorxiv}

\* kind: "crossref_search", "crossref_container" or "crossref_struct"
Search(kind) ==
    {[t |-> crossref_search(r).t, d |-> crossref_search(r).d, log |-> <<kind>>] :
        r \in SearchResponses}

Pubmed == {[t |-> pubmed_title_by_jvp(r), log |-> <<"pubmed">>] : r \in ApiResponses}

\* the result of one stage: ret says whether the stage returned (t, d)
Ret(t, d, log) == [ret |-> TRUE, t |-> t, d |-> d, log |-> log]

NoReturn(log) == [ret |-> FALSE, t |-> None, d |-> None, log |-> log]

\* an exception that escapes the stage
Raise(log) == [ret |-> FALSE, t |-> Raised, d |-> None, log |-> log]

\* "if t: return clean_text_strip_html(t), d" after a search call
SearchStep(kind, log) ==
    {IF Truthy(x.t) THEN Ret(clean_text_strip_html(x.t), x.d, log \o x.log)
     ELSE NoReturn(log \o x.log) : x \in Search(kind)}

\* t = pubmed_title_by_jvp(container, ...) or pubmed_title_by_jvp(abbrev, ...)
PubmedTwice ==
    UNION {IF Truthy(a.t) THEN {a}
           ELSE {[t |-> b.t, log |-> a.log \o b.log] : b \in Pubmed} : a \in Pubmed}

-----------------------------------------------------------------------------
(* Publisher rules *)

OUP_JOURNAL_MAP == ("femsre" :> <<"FEMS", " ", "Microbiology", " ", "Reviews">>)

OUP_JOURNAL_ABBREV == ("femsre" :> <<"FEMS", " ", "Microbiol", " ", "Rev">>)

CELL_JOURNAL_MAP ==
    ("cell" :> <<"Cell">>) @@ ("cell-reports" :> <<"Cell", " ", "Reports">>)
      @@ ("cell-metabolism" :> <<"Cell", " ", "Metabolism">>)
      @@ ("cell-host-microbe" :> <<"Cell", " ", "Host", " ", "&", " ", "Microbe">>)
      @@ ("cell-systems" :> <<"Cell", " ", "Systems">>)
      @@ ("cancer-cell" :> <<"Cancer", " ", "Cell">>)
      @@ ("cell-chemical-biology" :> <<"Cell", " ", "Chemical", " ", "Biology">>)
      @@ ("immunity" :> <<"Immunity">>)

\* "biorxiv.org" in host
OnBiorxiv(url) ==
    \E a \in Range(Lower(urlparse(url).netloc)) :
        a \in {"biorxiv.org", "www.biorxiv.org", "connect.biorxiv.org"}

\* "medrxiv.org" in host
OnMedrxiv(url) ==
    \E a \in Range(Lower(urlparse(url).netloc)) : a \in {"medrxiv.org", "www.medrxiv.org"}

\* "cell.com" in host or "sciencedirect.com" in host or "elsevier.com" in host
OnCell(url) ==
    \E a \in Range(Lower(urlparse(url).netloc)) :
        a \in {"cell.com", "www.cell.com", "sciencedirect.com", "www.sciencedirect.com",
               "elsevier.com", "www.elsevier.com"}

\* "academic.oup.com" in host
OnOup(url) == \E a \in Range(Lower(urlparse(url).netloc)) : a = "academic.oup.com"

\* CELL_JOURNAL_MAP.get(parts[0] if parts else "", None) and leaf, both truthy
HasCellContainerAndLeaf(url) ==
    LET parts == PathParts(urlparse(url).path)
    IN parts # <<>> /\ Len(parts[1]) = 1 /\ parts[1][1] \in DOMAIN CELL_JOURNAL_MAP

\* parts.index("article"), 0 standing for ValueError
OupIndex(parts) ==
    IF \E i \in 1..Len(parts) : parts[i] = <<"article">>
    THEN CHOOSE i \in 1..Len(parts) :
             parts[i] = <<"article">> /\ \A k \in 1..(i-1) : parts[k] # <<"article">>
    ELSE 0

\* parts[k] if k is an index of parts else ""
OupAt(parts, k) == IF k >= 1 /\ k <= Len(parts) THEN parts[k] ELSE <<>>

OupFieldsAt(parts, j) ==
    [ has |-> j # 0, slug |-> OupAt(parts, j-1), vol |-> OupAt(parts, j+1),
      iss |-> OupAt(parts, j+2), pg |-> OupAt(parts, j+3) ]

OupFieldsOf(parts) == OupFieldsAt(parts, OupIndex(parts))

\* the /<journal-slug>/article/<volume>/<issue>/<page> decomposition;
\* has is false when parts.index("article") raises ValueError
OupFields(url) == OupFieldsOf(PathParts(urlparse(url).path))

\* jname or OUP_JOURNAL_MAP.get(journal_slug, journal_slug.replace("-", " "))
OupContainer(slug, jname) ==
    IF Truthy(jname) THEN jname
    ELSE IF Len(slug) = 1 /\ slug[1] \in DOMAIN OUP_JOURNAL_MAP THEN OUP_JOURNAL_MAP[slug[1]]
    ELSE [i \in 1..Len(slug) |-> IF slug[i] = "-" THEN " " ELSE slug[i]]

\* "t = biorxiv_title_from_api(d) or try_crossref_title(d);
\*  if t: return clean_text_strip_html(t), d"
BiorxivDoiStep(d, log) ==
    {IF Truthy(x.t) THEN Ret(clean_text_strip_html(x.t), d, log \o x.log)
     ELSE NoReturn(log \o x.log) : x \in BiorxivOrCrossref}

\* the bioRxiv / medRxiv rule
PubBiorxiv(url, soup) ==
    LET d == find_doi_in_soup(soup)
        m == DOI_RE_search(url)
        urlStep(log) == IF m # None THEN BiorxivDoiStep(m, log) ELSE {NoReturn(log)}
    IN IF Truthy(soup.citation_title)
       THEN {Ret(clean_text_strip_html(soup.citation_title), d, <<>>)}
       ELSE IF d # None
       THEN UNION {IF a.ret THEN {a} ELSE urlStep(a.log) : a \in BiorxivDoiStep(d, <<>>)}
       ELSE urlStep(<<>>)

\* the two crossref_search_title calls that end the Cell rule
CellTwoSearches(log) ==
    UNION {IF Truthy(x.t) THEN {Ret(clean_text_strip_html(x.t), x.d, log \o x.log)}
           ELSE SearchStep("crossref_search", log \o x.log) : x \in Search("crossref_search")}

\* the Cell / Elsevier rule once the page gave nothing
CellFromUrl(url, log) ==
    LET first == IF HasCellContainerAndLeaf(url)
                 THEN SearchStep("crossref_container", log) ELSE {NoReturn(log)}
    IN UNION {IF a.ret THEN {a} ELSE CellTwoSearches(a.log) : a \in first}

\* the Cell / Elsevier rule
PubCell(url, soup) ==
    LET t  == safe_meta(soup)
        jl == find_title_in_jsonld(soup)
        d  == find_doi_in_soup(soup)
        byDoi == {IF Truthy(x.t) THEN Ret(clean_text_strip_html(x.t), d, x.log)
                  ELSE NoReturn(x.log) : x \in TryCrossref}
    IN IF Truthy(t) THEN {Ret(t, d, <<>>)}
       ELSE IF jl = Raised THEN {Raise(<<>>)}
       ELSE IF Truthy(jl) THEN {Ret(clean_text_strip_html(jl), d, <<>>)}
       ELSE IF d # None
       THEN UNION {IF a.ret THEN {a} ELSE CellFromUrl(url, a.log) : a \in byDoi}
       ELSE CellFromUrl(url, <<>>)

\* "t2 = pubmed_title_by_jvp(...) or pubmed_title_by_jvp(...);
\*  if t2: return clean_text_strip_html(t2), None"
OupPubmedStep(log) ==
    {IF Truthy(x.t) THEN Ret(clean_text_strip_html(x.t), None, log \o x.log)
     ELSE NoReturn(log \o x.log) : x \in PubmedTwice}

\* the Oxford Academic rule from its three searches on: c is the
\* container, anyOf says that one of vol, iss, pg is there
OupSearches(c, anyOf) ==
    LET s2(log) == IF c # <<>> /\ anyOf
                   THEN SearchStep("crossref_container", log) ELSE {NoReturn(log)}
        s3(log) == IF c # <<>> \/ anyOf
                   THEN SearchStep("crossref_search", log) ELSE {NoReturn(log)}
        from3(log) == UNION {IF a.ret THEN {a} ELSE OupPubmedStep(a.log) : a \in s3(log)}
        from2(log) == UNION {IF a.ret THEN {a} ELSE from3(a.log) : a \in s2(log)}
    IN UNION {IF a.ret THEN {a} ELSE from2(a.log) :
                  a \in SearchStep("crossref_struct", <<>>)}

\* the Oxford Academic rule, f being the decomposition of the path
PubOupAt(f, soup) ==
    IF ~f.has THEN {NoReturn(<<>>)}
    ELSE OupSearches(OupContainer(f.slug, safe_meta_journal(soup)),
                     f.vol # <<>> \/ f.iss # <<>> \/ f.pg # <<>>)

\* the Oxford Academic rule
PubOup(url, soup) ==
    LET t == safe_meta(soup)
    IN IF Truthy(t) THEN {Ret(t, find_doi_in_soup(soup), <<>>)}
       ELSE PubOupAt(OupFields(url), soup)

publisher_specific_title_and_doi(url, soup) ==
    IF OnBiorxiv(url) \/ OnMedrxiv(url) THEN PubBiorxiv(url, soup)
    ELSE IF OnCell(url) THEN PubCell(url, soup)
    ELSE IF OnOup(url) THEN PubOup(url, soup)
    ELSE {NoReturn(<<>>)}

-----------------------------------------------------------------------------
(* The stages of resolve_best_title_and_doi_for_url that call the network *)

\* "if is_direct_pdf_url(url): t, d = fetch_pdf_title_direct(url);
\*  if t: return clean_text_strip_html(t), d"
DirectPdfStage(url) ==
    UNION {IF is_direct_pdf_url(url, o)
           THEN {IF Truthy(fetch_pdf_title_direct(r).t)
                 THEN Ret(clean_text_strip_html(fetch_pdf_title_direct(r).t),
                          fetch_pdf_title_direct(r).d, ProbeCalls(o) \o PdfCalls(r))
                 ELSE NoReturn(ProbeCalls(o) \o PdfCalls(r)) : r \in PdfResults}
           ELSE {NoReturn(ProbeCalls(o))} : o \in ProbeOutcomes}

\* the DOI stage without its lookup
DoiStage_no_lookup(url) == {NoReturn(<<>>)}

\* the DOI stage returning the title of the lookup without the DOI
DoiStage_drops_doi(url) ==
    IF DOI_RE_search(url) = None THEN {NoReturn(<<>>)}
    ELSE {IF Truthy(x.t) THEN Ret(clean_text_strip_html(x.t), None, x.log)
          ELSE NoReturn(x.log) :
              x \in (IF OnBiorxiv(url) THEN BiorxivOrCrossref ELSE TryCrossref)}

\* "m = DOI_RE.search(url); if m: ... if t: return clean_text_strip_html(t), doi"
DoiStage(url) ==
    LET m == DOI_RE_search(url)
    IN IF m = None THEN {NoReturn(<<>>)}
       ELSE {IF Truthy(x.t) THEN Ret(clean_text_strip_html(x.t), m, x.log)
             ELSE NoReturn(x.log) :
                 x \in (IF OnBiorxiv(url) THEN BiorxivOrCrossref ELSE TryCrossref)}

\* the Oxford Academic block of the FORCE_API_TITLES branch
ForceOupAt(f, log) ==
    IF ~f.has THEN {NoReturn(log)}
    ELSE UNION {IF Truthy(x.t)
                THEN {Ret(clean_text_strip_html(x.t), x.d, log \o x.log)}
                ELSE {IF Truthy(y.t)
                      THEN Ret(clean_text_strip_html(y.t), x.d, log \o x.log \o y.log)
                      ELSE NoReturn(log \o x.log \o y.log) : y \in PubmedTwice} :
                    x \in Search("crossref_struct")}

ForceOup(url, log) ==
    IF ~OnOup(url) THEN {NoReturn(log)} ELSE ForceOupAt(OupFields(url), log)

\* the Cell block of the FORCE_API_TITLES branch
ForceCell(url) ==
    IF ~OnCell(url) THEN {NoReturn(<<>>)}
    ELSE LET first == IF HasCellContainerAndLeaf(url)
                      THEN SearchStep("crossref_container", <<>>) ELSE {NoReturn(<<>>)}
         IN UNION {IF a.ret THEN {a} ELSE SearchStep("crossref_search", a.log) : a \in first}

\* the FORCE_API_TITLES branch: it always returns
ForceStage(url) ==
    LET afterCell == UNION {IF a.ret THEN {a} ELSE ForceOup(url, a.log) : a \in ForceCell(url)}
    IN {IF a.ret THEN a ELSE Ret(InferredTitle(url), None, a.log) : a \in afterCell}

\* the canonical hop: the page and current_url the cascade goes on with,
\* url being the argument of the cascade and resp_url, soup the first fetch
\* the canonical hop that also follows the canonical link of the page it
\* fetched
CanonicalHop_follows_again(url, resp_url, soup) ==
    IF Truthy(soup.canonical) /\ Strip(soup.canonical, WHITESPACE) # <<>>
       /\ Strip(soup.canonical, WHITESPACE) # resp_url
       /\ canonicalize_url(Strip(soup.canonical, WHITESPACE)) \notin {None, url}
    THEN UNION {IF ~r.ok THEN {[soup |-> soup, url |-> resp_url, log |-> <<"html_get">>]}
                ELSE IF Truthy(r.soup.canonical)
                        /\ Strip(r.soup.canonical, WHITESPACE) \notin {<<>>, r.url}
                THEN {[soup |-> r.soup, url |-> r.url, log |-> <<"html_get", "html_get">>]}
                ELSE {[soup |-> r.soup, url |-> r.url, log |-> <<"html_get">>]} :
                    r \in fetch_and_parse(canonicalize_url(Strip(soup.canonical, WHITESPACE)))}
    ELSE {[soup |-> soup, url |-> resp_url, log |-> <<>>]}

CanonicalHop(url, resp_url, soup) ==
    LET href   == IF Truthy(soup.canonical) THEN Strip(soup.canonical, WHITESPACE) ELSE <<>>
        canon_ == canonicalize_url(href)
    IN IF href # <<>> /\ href # resp_url /\ canon_ # None /\ canon_ # url
       THEN {IF r.ok THEN [soup |-> r.soup, url |-> r.url, log |-> <<"html_get">>]
             ELSE [soup |-> soup, url |-> resp_url, log |-> <<"html_get">>] :
                 r \in fetch_and_parse(canon_)}
       ELSE {[soup |-> soup, url |-> resp_url, log |-> <<>>]}

\* "t, d = publisher_specific_title_and_doi(current_url, soup);
\*  if t: return t, d or find_doi_in_soup(soup)"
PublisherStage(current_url, soup) ==
    {IF o.t = Raised THEN o
     ELSE IF o.ret /\ Truthy(o.t) THEN Ret(o.t, Or(o.d, find_doi_in_soup(soup)), o.log)
     ELSE NoReturn(o.log) : o \in publisher_specific_title_and_doi(current_url, soup)}

\* the stages that only read the page: meta tags, JSON-LD headline,
\* <title>, <h1>
PageTitleStage(soup) ==
    LET d  == find_doi_in_soup(soup)
        mt == ScholarMetaTitle(soup)
        jl == find_title_in_jsonld(soup)
        tt == IF Truthy(soup.title) THEN clean_text_strip_html(soup.title) ELSE <<>>
        hh == IF soup.h1 # None THEN clean_text_strip_html(soup.h1) ELSE <<>>
    IN IF mt # <<>> THEN Ret(mt, d, <<>>)
       ELSE IF jl = Raised THEN Raise(<<>>)
       ELSE IF Truthy(jl) /\ clean_text_strip_html(jl) # <<>>
       THEN Ret(clean_text_strip_html(jl), d, <<>>)
       ELSE IF tt # <<>> THEN Ret(tt, d, <<>>)
       ELSE IF hh # <<>> THEN Ret(hh, d, <<>>)
       ELSE NoReturn(<<>>)

\* "d = find_doi_in_soup(soup); if d: t2 = try_crossref_title(d); if t2: return ..."
PageDoiStage(soup) ==
    LET d == find_doi_in_soup(soup)
    IN IF d = None THEN {NoReturn(<<>>)}
       ELSE {IF Truthy(x.t) THEN Ret(clean_text_strip_html(x.t), d, x.log)
             ELSE NoReturn(x.log) : x \in TryCrossref}

\* the free-text search by leaf or whole URL, then the inferred title
SearchStage(current_url) ==
    {IF a.ret THEN a ELSE Ret(InferredTitle(current_url), None, a.log) :
        a \in SearchStep("crossref_search", <<>>)}

-----------------------------------------------------------------------------
(* resolve_best_title_and_doi_for_url as main sees it: every (title, doi)  *)
(* one call can return, t = Raised standing for an exception               *)

\* the outcomes of a stage without the requests
Outcomes(stage) == {[ret |-> o.ret, t |-> o.t, d |-> o.d] : o \in stage}

Result(o) == [t |-> o.t, d |-> o.d]

\* lines 796-835, on the page the cascade ended up with
ResolvePage(soup, current_url) ==
    LET p        == PageTitleStage(soup)
        lastTwo  == UNION {IF q.ret THEN {Result(q)}
                           ELSE {Result(x) : x \in Outcomes(SearchStage(current_url))} :
                               q \in Outcomes(PageDoiStage(soup))}
        fromPage == IF p.t = Raised \/ p.ret THEN {Result(p)} ELSE lastTwo
    IN UNION {IF o.t = Raised \/ o.ret THEN {Result(o)} ELSE fromPage :
                  o \in Outcomes(PublisherStage(current_url, soup))}

\* lines 774-835
ResolveFetch(url) ==
    UNION {IF ~r.ok THEN {[t |-> InferredTitle(url), d |-> None]}
           ELSE UNION {ResolvePage(h.soup, h.url) : h \in CanonicalHop(url, r.url, r.soup)} :
               r \in fetch_and_parse(url)}

resolve_best_title_and_doi_for_url(url, force) ==
    LET fromForce == IF force THEN {Result(f) : f \in Outcomes(ForceStage(url))}
                     ELSE ResolveFetch(url)
        fromDoi   == UNION {IF q.ret THEN {Result(q)} ELSE fromForce :
                                q \in Outcomes(DoiStage(url))}
    IN UNION {IF o.ret THEN {Result(o)} ELSE fromDoi : o \in Outcomes(DirectPdfStage(url))}

-----------------------------------------------------------------------------
(* Raw candidate strings: what URL_RE.findall, the attachment fields and   *)
(* the block walk of extract_urls can hand to canonicalize_url             *)

SeqsUpTo(S, n) == UNION {[1..k -> S] : k \in 0..n}

PathAlpha == {"/", "a", "."}

\* every path of at most MaxPathLen atoms
FreePaths == {p \in SeqsUpTo(PathAlpha, MaxPathLen) : p = <<>> \/ p[1] = "/"}

ArticlePaths == {
    <<"/", "article", "/", "a">>,
    <<"/", "article", "/", "a", ".jpg">>,
    <<"/", "article", "/", "a", ".JPG">>,
    <<"/", "a", ".png">>,
    <<"/", "a", ".mp4">>,
    <<"/", "a", ".pdf">>,
    <<"/", "doi", "/", "10.1234", "/", "abc">>,
    <<"/", "10.1234", "/", "abc", ".jpg">> }

PairPool == {
    <<"ref", "=", "homepage">>,
    <<"x", "=", "1">>,
    <<"b", "=", "2">>,
    <<"x", "=", "1", ".">> }

\* every query of at most MaxPairs name=value pieces
FreeQueries == SeqsUpTo(PairPool, MaxPairs)

MediaQueries == { <<>>, << <<"img", "=", "fig", ".jpg">> >>, << <<"x", "=", "1">> >> }

Decorations ==
    {"none", "port443", "port8080", "http80", "frag", "paren", "angle", "label", "amp"}

Variations == {"same", "tracking", "scheme_case", "host_case", "slash"}

\* the text of one raw candidate
Build(st, deco) ==
    LET scheme == IF deco = "http80" THEN "http" ELSE st.scheme
        port   == CASE deco = "port443" -> <<":443">>
                    [] deco = "port8080" -> <<":8080">>
                    [] deco = "http80" -> <<":80">>
                    [] OTHER -> st.port
        sep    == IF deco = "amp" THEN <<"&amp;">> ELSE <<"&">>
        query  == IF st.pairs = <<>> THEN <<>> ELSE <<"?">> \o Join(st.pairs, sep)
        frag   == IF deco = "frag" THEN <<"#", "frag">> ELSE st.frag
        core   == <<scheme, "://", st.host>> \o port \o st.path \o query \o frag
    IN CASE deco = "paren" -> core \o <<")">>
         [] deco = "angle" -> <<"<">> \o core \o <<">">>
         [] deco = "label" -> <<"<">> \o core \o <<"|", "label", ">">>
         [] OTHER -> core

\* url_alt: url_in with one difference of the stated kind and no other
Vary(st, v) ==
    CASE v = "tracking"    -> [st EXCEPT !.pairs = @ \o << <<"ref", "=", "homepage">> >>]
      [] v = "scheme_case" -> [st EXCEPT !.scheme = UpperAtom(@)]
      [] v = "host_case"   -> [st EXCEPT !.host = UpperAtom(@)]
      [] v = "slash"       -> [st EXCEPT !.path = @ \o <<"/">>]
      [] OTHER             -> st

CanVary(st, v) ==
    IF v # "slash" THEN TRUE
    ELSE IF st.path = <<>> THEN TRUE
    ELSE Last(st.path) # "/"

CanonBases ==
    [ scheme : {"https"}, host : {"example.com"}, port : {<<>>},
      path : FreePaths, pairs : FreeQueries, frag : {<<>>} ]

FilterBases ==
    [ scheme : {"https"}, host : {"example.com", "twitter.com", "www.nature.com"},
      port : {<<>>, <<":8080">>}, path : ArticlePaths, pairs : MediaQueries,
      frag : {<<>>, <<"#", "fig", ".jpg">>} ]

\* the scenario of the specification, section 8
ScenarioBase ==
    [ scheme |-> "https", host |-> "example.com", port |-> <<>>,
      path |-> <<"/", "article">>,
      pairs |-> << <<"utm_source", "=", "slack">>, <<"utm_campaign", "=", "x">> >>,
      frag |-> <<"#", "frag">> ]

ScenarioUrl == Build(ScenarioBase, "none")

UrlCases ==
    {<<st, d, "same">> : st \in CanonBases, d \in Decorations}
      \cup {c \in {<<st, "none", v>> : st \in CanonBases, v \in Variations} :
                CanVary(c[1], c[3])}
      \cup {<<st, "none", v>> : st \in FilterBases, v \in {"same"}}
      \cup {<<ScenarioBase, "none", "same">>}

-----------------------------------------------------------------------------
(* The URL pipeline of extract_urls, one candidate at a time *)

\* main is not running
MainIdle ==
    /\ msgs = <<>>
    /\ mi = 0
    /\ mpc = "idle"
    /\ urls = <<>>
    /\ ui = 0
    /\ seen_keys = {}
    /\ processed = 0
    /\ emitted = <<>>
    /\ skips = <<>>
    /\ store = <<>>
    /\ nlog = <<>>
    /\ rejected = {}

\* no call of looks_numericish is under way
NumIdle ==
    /\ nstr = None
    /\ nrej = FALSE
    /\ npc = "idle"

\* no call of extract_pdf_title_from_bytes is under way
PdfIdle ==
    /\ pdf = None
    /\ ptitle = [t |-> None, d |-> None]
    /\ ppc = "idle"

\* (title, doi) before the cascade returned
NoResult == [title |-> None, doi |-> None, via |-> "none"]

\* no call of the cascade is under way
ResolverIdle ==
    /\ FORCE_API_TITLES = FALSE
    /\ rpc = "idle"
    /\ rurl = None
    /\ rsoup = BlankPage
    /\ rcur = None
    /\ rres = NoResult
    /\ rlog = <<>>

UrlInit ==
    /\ \E c \in UrlCases :
          /\ url_in = Build(c[1], c[2])
          /\ url_alt = Build(Vary(c[1], c[3]), c[2])
          /\ variation = c[3]
    /\ canon = None
    /\ canon_alt = None
    /\ recanon = None
    /\ verdict = [raw |-> FALSE, canon |-> FALSE]
    /\ upc = "raw"
    /\ ResolverIdle
    /\ MainIdle
    /\ PdfIdle
    /\ NumIdle

\* u = canonicalize_url(raw)
Canonicalize ==
    /\ upc = "raw"
    /\ canon' = canonicalize_url(url_in)
    /\ canon_alt' = canonicalize_url(url_alt)
    /\ upc' = IF canonicalize_url(url_in) = None THEN "dropped" ELSE "canon"
    /\ UNCHANGED <<url_in, url_alt, recanon, verdict, variation, resvars, mainvars, pdfvars, numvars>>

\* if not is_scholarly_url(u): continue
Classify ==
    /\ upc = "canon"
    /\ verdict' = [raw |-> is_scholarly_url(url_in), canon |-> is_scholarly_url(canon)]
    /\ upc' = "filtered"
    /\ UNCHANGED <<url_in, url_alt, canon, canon_alt, recanon, variation, resvars, mainvars, pdfvars, numvars>>

\* a canonical URL handed to canonicalize_url again
Recanonicalize ==
    /\ upc = "filtered"
    /\ recanon' = canonicalize_url(canon)
    /\ upc' = "recanon"
    /\ UNCHANGED <<url_in, url_alt, canon, canon_alt, verdict, variation, resvars, mainvars, pdfvars, numvars>>

UrlNext == Canonicalize \/ Classify \/ Recanonicalize

SpecUrl == UrlInit /\ [][UrlNext]_vars

-----------------------------------------------------------------------------
(* resolve_best_title_and_doi_for_url, one action per stage *)

U_Article == <<"https", "://", "example.com", "/", "article", "/", "paper">>
U_Doi == <<"https", "://", "doi.org", "/", "10.1234", "/", "abc">>
U_Bio == <<"https", "://", "www.biorxiv.org", "/", "content", "/", "10.1101", "/", "abc">>
U_Pdf == <<"https", "://", "example.com", "/", "article", "/", "paper", ".pdf">>
U_Cell == <<"https", "://", "www.cell.com", "/", "cell", "/", "fulltext", "/", "S0092">>
U_Oup == <<"https", "://", "academic.oup.com", "/", "femsre", "/", "article",
            "/", "10", "/", "2", "/", "123">>

\* the URLs main can hand to the cascade: canonical and kept by the filter
ResolveUrls ==
    {u \in {U_Article, U_Alt, U_Doi, U_Bio, U_Pdf, U_Cell, U_Oup} :
        canonicalize_url(u) = u /\ is_scholarly_url(u)}

UrlIdle ==
    /\ url_in = None
    /\ url_alt = None
    /\ variation = "same"
    /\ canon = None
    /\ canon_alt = None
    /\ recanon = None
    /\ verdict = [raw |-> FALSE, canon |-> FALSE]
    /\ upc = "idle"

\* what no stage of the cascade touches
ResolverFrame == UNCHANGED <<urlvars, FORCE_API_TITLES, rurl, mainvars, pdfvars, numvars>>

\* "return title, doi"
Return(title, doi, via, log) ==
    /\ rres' = [title |-> title, doi |-> doi, via |-> via]
    /\ rlog' = rlog \o log
    /\ rpc' = "returned"

\* a stage with outcome o: it raises, returns, or hands over to stage next
Stage(o, via, next) ==
    IF o.t = Raised
    THEN rpc' = "raised" /\ rlog' = rlog \o o.log /\ UNCHANGED rres
    ELSE IF o.ret THEN Return(o.t, o.d, via, o.log)
    ELSE rpc' = next /\ rlog' = rlog \o o.log /\ UNCHANGED rres

\* lines 728-730
R_DirectPdf ==
    /\ rpc = "start"
    /\ \E o \in DirectPdfStage(rurl) : Stage(o, "pdf", "doi")
    /\ UNCHANGED <<rsoup, rcur>>
    /\ ResolverFrame

\* lines 732-741
R_DoiInUrl ==
    /\ rpc = "doi"
    /\ \E o \in DoiStage(rurl) :
           Stage(o, "doi_url", IF FORCE_API_TITLES THEN "force" ELSE "fetch")
    /\ UNCHANGED <<rsoup, rcur>>
    /\ ResolverFrame

\* lines 741-771
R_ForceApi ==
    /\ rpc = "force"
    /\ \E o \in ForceStage(rurl) : Stage(o, "force", "fetch")
    /\ UNCHANGED <<rsoup, rcur>>
    /\ ResolverFrame

\* lines 774-778
R_Fetch ==
    /\ rpc = "fetch"
    /\ \E r \in fetch_and_parse(rurl) :
           IF r.ok
           THEN /\ rsoup' = r.soup
                /\ rcur' = r.url
                /\ rlog' = rlog \o <<"html_get">>
                /\ rpc' = "hop"
                /\ UNCHANGED rres
           ELSE /\ Return(InferredTitle(rurl), None, "fetch_failed", <<"html_get">>)
                /\ UNCHANGED <<rsoup, rcur>>
    /\ ResolverFrame

\* lines 781-793
R_CanonicalHop ==
    /\ rpc = "hop"
    /\ \E h \in CanonicalHop(rurl, rcur, rsoup) :
           /\ rsoup' = h.soup
           /\ rcur' = h.url
           /\ rlog' = rlog \o h.log
    /\ rpc' = "publisher"
    /\ UNCHANGED rres
    /\ ResolverFrame

\* lines 796-797
R_Publisher ==
    /\ rpc = "publisher"
    /\ \E o \in PublisherStage(rcur, rsoup) : Stage(o, "publisher", "page")
    /\ UNCHANGED <<rsoup, rcur>>
    /\ ResolverFrame

\* lines 800-819
R_PageTitle ==
    /\ rpc = "page"
    /\ Stage(PageTitleStage(rsoup), "page", "pagedoi")
    /\ UNCHANGED <<rsoup, rcur>>
    /\ ResolverFrame

\* lines 822-826
R_PageDoi ==
    /\ rpc = "pagedoi"
    /\ \E o \in PageDoiStage(rsoup) : Stage(o, "page_doi", "search")
    /\ UNCHANGED <<rsoup, rcur>>
    /\ ResolverFrame

\* lines 829-835
R_Search ==
    /\ rpc = "search"
    /\ \E o \in SearchStage(rcur) : Stage(o, "search", "search")
    /\ UNCHANGED <<rsoup, rcur>>
    /\ ResolverFrame

ResolveNext ==
    \/ R_DirectPdf
    \/ R_DoiInUrl
    \/ R_ForceApi
    \/ R_Fetch
    \/ R_CanonicalHop
    \/ R_Publisher
    \/ R_PageTitle
    \/ R_PageDoi
    \/ R_Search

\* one call of the cascade, on any URL main can hand to it
ResolveInit ==
    /\ UrlIdle
    /\ MainIdle
    /\ PdfIdle
    /\ NumIdle
    /\ FORCE_API_TITLES \in BOOLEAN
    /\ rurl \in ResolveUrls
    /\ rpc = "start"
    /\ rsoup = BlankPage
    /\ rcur = None
    /\ rres = NoResult
    /\ rlog = <<>>

SpecResolve == ResolveInit /\ [][ResolveNext]_vars

-----------------------------------------------------------------------------
(* Properties of canonicalize_url and is_scholarly_url *)

\* C3: canonicalize_url is idempotent: canonicalizing a non-null result
\* again returns it unchanged.
C3_CanonIdempotent == (upc = "recanon") => (recanon = canon)

\* C4: two URLs that differ only by a tracking query parameter, by the case
\* of the scheme or of the host, or by a trailing slash (the root path's
\* included) have the same canonical form.
C4_CanonIgnoresVariation == (upc # "raw") => (canon = canon_alt)

QueryKeysSorted(pairs) ==
    \A i \in 1..Len(pairs) : \A j \in 1..Len(pairs) :
        i < j => StrLeq(pairs[i].k, pairs[j].k)

ScenarioCanon == <<"https", "://", "example.com", "/", "article">>

\* C5: a non-null result of canonicalize_url has no fragment and no query
\* pair with a tracking key, its query pairs are sorted by key, and the
\* scenario URL canonicalizes to https://example.com/article.
C5_CanonOutputShape ==
    (upc # "raw" /\ canon # None) =>
        LET p == urlparse(canon)
            pairs == parse_qsl(p.query)
        IN /\ "#" \notin Range(canon)
           /\ p.fragment = <<>>
           /\ \A i \in 1..Len(pairs) : ~IsTrackingKey(pairs[i].k)
           /\ QueryKeysSorted(pairs)
           /\ (url_in = ScenarioUrl => canon = ScenarioCanon)

C5_Witness ==
    /\ upc = "canon"
    /\ url_in = ScenarioUrl
    /\ canon = ScenarioCanon

\* the host name of a netloc, without its port
Hostname(netloc) == IF netloc = <<>> THEN <<>> ELSE <<LowerAtom(Head(netloc))>>

EndsInMediaExt(url) == url # <<>> /\ LowerAtom(Last(url)) \in {".jpg", ".png", ".mp4"}

OnSocialHost(url) ==
    LET h == Hostname(urlparse(url).netloc) IN Len(h) = 1 /\ h[1] \in SKIP_HOSTS

\* C6 as stated: is_scholarly_url returns false for every URL that ends in
\* .jpg, .png or .mp4 and for every URL whose host is a social-media host.
C6_RejectsMediaAndSocial ==
    (upc \in {"filtered", "recanon"}) =>
        /\ (EndsInMediaExt(url_in) \/ OnSocialHost(url_in)) => ~verdict.raw
        /\ (EndsInMediaExt(canon) \/ OnSocialHost(canon)) => ~verdict.canon

-----------------------------------------------------------------------------
(* Properties of resolve_best_title_and_doi_for_url *)

\* the requests of a DOI-based bibliographic lookup
DoiLookupCalls == {"biorxiv_api", "crossref_doi"}

\* index of the first request of log that is in kinds, 0 when there is none
FirstCall(log, kinds) == FirstIdx(log, kinds)

\* a DOI-based lookup was issued and no page GET came before it
LookupBeforeFetch(log) ==
    /\ FirstCall(log, DoiLookupCalls) # 0
    /\ FirstCall(log, {"html_get"}) = 0
           \/ FirstCall(log, DoiLookupCalls) < FirstCall(log, {"html_get"})

\* no page GET came before the first DOI-based lookup
NoFetchBeforeLookup(log) ==
    \/ FirstCall(log, {"html_get"}) = 0
    \/ /\ FirstCall(log, DoiLookupCalls) # 0
       /\ FirstCall(log, DoiLookupCalls) < FirstCall(log, {"html_get"})

\* C7 as stated: a call on a URL that contains a DOI-shaped substring has,
\* when it ends, attempted the DOI-based lookup, and no HTML fetch of the
\* page came before that attempt.
C7_DoiLookupBeforeHtmlFetch ==
    (rpc \in {"returned", "raised"} /\ DOI_RE_search(rurl) # None) =>
        LookupBeforeFetch(rlog)

\* C7 amended: on a URL that contains a DOI-shaped substring the cascade
\* never fetches the HTML page before it has attempted the DOI-based lookup,
\* and a call that ends has attempted that lookup unless the direct-PDF
\* stage returned a title first.
C7_DoiLookupUnlessPdfReturned ==
    (rpc # "idle" /\ DOI_RE_search(rurl) # None) =>
        /\ NoFetchBeforeLookup(rlog)
        /\ (rpc \in {"returned", "raised"} /\ rres.via # "pdf") => LookupBeforeFetch(rlog)

C7_Witness ==
    /\ rpc = "returned"
    /\ DOI_RE_search(rurl) # None
    /\ rres.via = "page"
    /\ FirstCall(rlog, DoiLookupCalls) # 0
    /\ FirstCall(rlog, DoiLookupCalls) < FirstCall(rlog, {"html_get"})

\* C10: the cascade never raises because of a network failure and always
\* returns a non-empty title.  (Every request that fails is caught where it
\* is made; the one exception that leaves the cascade comes from a JSON-LD
\* block whose @type is a list, which is content, not a network failure.)
C10_NeverRaisesAlwaysTitle ==
    /\ (rpc = "raised") => (rsoup.jsonld.type = "list")
    /\ (rpc = "returned") => (rres.title # None /\ rres.title # <<>>)

-----------------------------------------------------------------------------
(* Messages, extract_urls and the PDF helpers *)

MaxMsgs == 2

RawTwitter == <<"https", "://", "twitter.com", "/", "article", "/", "a">>
RawArticle == <<"<">> \o U_Article \o <<">">>
RawArticleRef == U_Article \o <<"?", "ref", "=", "homepage">>
RawPdf == U_Pdf

PdfFile == [name |-> <<"paper", ".PDF">>, mimetype |-> <<>>, filetype |-> <<>>]
PngFile == [name |-> <<"fig", ".png">>, mimetype |-> <<"image/png">>, filetype |-> <<"png">>]

\* a message: the URL candidates of its text, attachments and blocks, in
\* the order extract_urls collects them, and its files
Channel == <<
    [cands |-> <<RawTwitter, RawArticle, U_Article>>, files |-> <<PngFile>>],
    [cands |-> <<RawArticleRef>>, files |-> <<>>],
    [cands |-> <<>>, files |-> <<PngFile, PdfFile>>],
    [cands |-> <<RawPdf>>, files |-> <<>>] >>

\* list_all_messages: the messages of the channel that fall in the window
\* of the run
Runs ==
    {r \in {SubSeq(Channel, i, j) : i \in 1..Len(Channel), j \in 1..Len(Channel)} :
         Len(r) \in 1..MaxMsgs}

RECURSIVE CanonUnique(_, _)
\* "u = canonicalize_url(raw); if u and u not in seen: out.append(u)"
CanonUnique(cand, out) ==
    IF cand = <<>> THEN out
    ELSE LET u == canonicalize_url(Head(cand))
         IN CanonUnique(Tail(cand),
                        IF u # None /\ u \notin Range(out) THEN Append(out, u) ELSE out)

\* any(x in ct for x in ("image/", "video/", "audio/"))
IsMediaType(ct) == ct # None /\ ct \in {<<"image/png">>, <<"video/mp4">>, <<"audio/mpeg">>}

\* the filter that keeps every URL
Kept_always(u, o) == TRUE

\* "if not is_scholarly_url(u): continue; ct = quick_content_type(u);
\*  if ct and any(...): continue", o being the answer of the probe
Kept(u, o) == is_scholarly_url(u) /\ ~IsMediaType(quick_content_type(o))

RECURSIVE KeepLists(_)
\* keep, and the URLs left out of it, for every way the content-type probes
\* of the URLs of out can answer
KeepLists(out) ==
    IF out = <<>> THEN {[keep |-> <<>>, rej |-> {}]}
    ELSE LET rest == KeepLists(Tail(out))
             u    == Head(out)
         IN UNION {IF Kept(u, o)
                   THEN {[keep |-> <<u>> \o k.keep, rej |-> k.rej] : k \in rest}
                   ELSE {[keep |-> k.keep, rej |-> k.rej \cup {u}] : k \in rest} :
                       o \in ProbeOutcomes}

\* the lists extract_urls can return
extract_urls(msg) == {k.keep : k \in KeepLists(CanonUnique(msg.cands, <<>>))}

is_pdf_like_file(f) ==
    \/ Lower(f.mimetype) = <<"application/pdf">>
    \/ Lower(f.filetype) = <<"pdf">>
    \/ f.name # <<>> /\ LowerAtom(Last(f.name)) = ".pdf"

get_pdf_files(msg) == SelectSeq(msg.files, is_pdf_like_file)

\* message_permalink: the link Slack gives for message number i
SlackLink(i) ==
    <<"https", "://", "team.slack.com", "/", "archives", "/", "p">> \o Repeat("1", i)

\* pdf_message_permalink(m, cid): link is None when the Slack call failed
pdf_message_permalink(link) ==
    IF link = None THEN None
    ELSE IF canonicalize_url(link) # None THEN canonicalize_url(link) ELSE link

\* the title main derives from the file name
FileNameTitle(f) ==
    LET fn == Strip(f.name, WHITESPACE)
        t  == clean_text_strip_html(CollapseWs(DashesToSpaces(fn)))
    IN IF t # <<>> THEN t ELSE <<"PDF">>

\* key = (doi or "") or normalize_title_for_key(title)
DedupeKey(title, doi) == IF Truthy(doi) THEN doi ELSE normalize_title_for_key(title)

\* the seen-set test that never finds the key
InSeen_never(key, seen) == FALSE

\* "key in seen_keys"
InSeen(key, seen) == key \in seen

\* f"Article on {host}"
ArticleOn(u) == <<"Article", " ", "on", " ">> \o urlparse(u).netloc

PDF_ARTICLE == <<"PDF", " ", "Article">>

-----------------------------------------------------------------------------
(* notion_find_existing and notion_upsert *)

\* the "contains" filter of the Notion query
Contains(str, sub) ==
    \E i \in 1..Len(str) : i + Len(sub) - 1 <= Len(str) /\ SubSeq(str, i, i + Len(sub) - 1) = sub

\* the "or" filter notion_find_existing builds
PageMatches(pg, url, title, doi) ==
    \/ pg.url = url
    \/ Truthy(doi) /\ Contains(pg.url, doi)
    \/ Truthy(title) /\ CharLen(title) <= 200 /\ pg.title = title

\* the pages the query of notion_find_existing can return as res[0]
notion_find_existing(st, url, title, doi) ==
    {i \in 1..Len(st) : PageMatches(st[i], url, title, doi)}

\* Every way one call of notion_upsert can go.  The query of
\* notion_find_existing answers, or fails with APIResponseError (caught:
\* "existing" is None), or with another exception, which escapes; so does
\* the write.  An entry says what the call did: op, how the write went
\* ("ok", "api_error", "error"), and whether a matching page existed.
notion_upsert(st, url, title, doi) ==
    LET hits == notion_find_existing(st, url, title, doi)
        page == [url |-> url, title |-> TakeChars(title, 2000)]
        entry(op, w) ==
            [op |-> op, url |-> url, title |-> title, doi |-> doi,
             write |-> w, existed |-> hits # {}]
        create ==
            { [store |-> Append(st, page), entry |-> entry("create", "ok"), escaped |-> FALSE],
              [store |-> st, entry |-> entry("create", "api_error"), escaped |-> FALSE],
              [store |-> st, entry |-> entry("create", "error"), escaped |-> TRUE] }
        update(i) ==
            { [store |-> [st EXCEPT ![i] = page], entry |-> entry("update", "ok"), escaped |-> FALSE],
              [store |-> st, entry |-> entry("update", "api_error"), escaped |-> FALSE],
              [store |-> st, entry |-> entry("update", "error"), escaped |-> TRUE] }
    IN {[store |-> st, entry |-> entry("none", "none"), escaped |-> TRUE]}
         \cup create
         \cup UNION {update(i) : i \in hits}

-----------------------------------------------------------------------------
(* main *)

\* raw is the title the step had before it put a placeholder in its place
Record(url, title, doi, key, kind, raw) ==
    [url |-> url, title |-> title, doi |-> doi, key |-> key, kind |-> kind, msg |-> mi,
     raw |-> raw,
     \* the calls of resolve_best_title_and_doi_for_url main made for it: the
     \* one of line 901 for a link, none for a PDF
     calls |-> IF kind = "LINK" THEN 1 ELSE 0]

\* "seen_keys.add(key); notion_upsert(...); processed += 1", then on to next
Emit(rec, next) ==
    /\ seen_keys' = seen_keys \cup {rec.key}
    /\ emitted' = Append(emitted, rec)
    /\ \E o \in notion_upsert(store, rec.url, rec.title, rec.doi) :
           /\ store' = o.store
           /\ nlog' = Append(nlog, o.entry)
           /\ mpc' = IF o.escaped THEN "crashed" ELSE next
           /\ processed' = IF o.escaped THEN processed ELSE processed + 1
    /\ UNCHANGED skips

\* "if key in seen_keys: continue"
Skip(rec, next) ==
    /\ skips' = Append(skips, rec)
    /\ mpc' = next
    /\ UNCHANGED <<seen_keys, emitted, store, nlog, processed>>

\* "for m in list_all_messages(...)": urls = extract_urls(m)
M_NextMessage ==
    /\ mpc = "next"
    /\ mi <= Len(msgs)
    /\ \E k \in KeepLists(CanonUnique(msgs[mi].cands, <<>>)) :
           /\ urls' = k.keep
           /\ rejected' = rejected \cup {[msg |-> mi, url |-> u] : u \in k.rej}
    /\ ui' = 1
    /\ mpc' = "links"
    /\ UNCHANGED <<msgs, mi, seen_keys, processed, emitted, skips, store, nlog>>
    /\ UNCHANGED <<urlvars, resvars, pdfvars, numvars>>

\* the loop is over: print(f"Processed {processed} items.")
M_Done ==
    /\ mpc = "next"
    /\ mi > Len(msgs)
    /\ mpc' = "done"
    /\ UNCHANGED <<msgs, mi, urls, ui, seen_keys, processed, emitted, skips, store, nlog>>
    /\ UNCHANGED <<urlvars, resvars, rejected, pdfvars, numvars>>

\* what "title, doi = resolve_best_title_and_doi_for_url(u)" can give, for
\* the URLs the messages of the channel hold
Resolutions ==
    [u \in UNION {Range(k) : k \in UNION {extract_urls(Channel[i]) : i \in 1..Len(Channel)}} |->
        [force \in BOOLEAN |-> resolve_best_title_and_doi_for_url(u, force)]]

\* lines 900-913: one u of the first "for u in urls".  An exception that
\* leaves resolve_best_title_and_doi_for_url has no handler in main.
M_Link ==
    /\ mpc = "links"
    /\ ui <= Len(urls)
    /\ \E r \in Resolutions[urls[ui]][FORCE_API_TITLES] :
           LET u     == urls[ui]
               title == IF looks_numericish(r.t) THEN ArticleOn(u) ELSE r.t
               key   == DedupeKey(title, r.d)
               rec   == Record(u, title, r.d, key, "LINK", r.t)
           IN IF r.t = Raised
              THEN /\ mpc' = "crashed"
                   /\ UNCHANGED <<seen_keys, processed, emitted, skips, store, nlog>>
              ELSE IF InSeen(key, seen_keys) THEN Skip(rec, "links")
              ELSE Emit(rec, "links")
    /\ ui' = ui + 1
    /\ UNCHANGED <<msgs, mi, urls>>
    /\ UNCHANGED <<urlvars, resvars, rejected, pdfvars, numvars>>

\* the first "for u in urls" is over
M_LinksEnd ==
    /\ mpc = "links"
    /\ ui > Len(urls)
    /\ mpc' = "pdf"
    /\ UNCHANGED <<msgs, mi, urls, ui, seen_keys, processed, emitted, skips, store, nlog>>
    /\ UNCHANGED <<urlvars, resvars, rejected, pdfvars, numvars>>

\* lines 916-931: the PDF uploaded with the message.  link is what
\* chat_getPermalink gave (None: SlackApiError), r what
\* fetch_pdf_title_via_slack returned.
M_UploadedPdf ==
    /\ mpc = "pdf"
    /\ LET pdfs == get_pdf_files(msgs[mi])
       IN IF pdfs = <<>>
          THEN /\ mpc' = "direct"
               /\ UNCHANGED <<seen_keys, processed, emitted, skips, store, nlog>>
          ELSE \E link \in {None, SlackLink(mi)}, r \in PdfResults :
                   LET permalink == pdf_message_permalink(link)
                       t0    == FileNameTitle(pdfs[1])
                       t1    == IF Truthy(r.t) THEN clean_text_strip_html(r.t) ELSE t0
                       title == IF looks_numericish(t1) THEN PDF_ARTICLE ELSE t1
                       key   == DedupeKey(title, r.d)
                       rec   == Record(permalink, title, r.d, key, "PDF", t1)
                   IN IF permalink = None
                      THEN /\ mpc' = "direct"
                           /\ UNCHANGED <<seen_keys, processed, emitted, skips, store, nlog>>
                      ELSE IF InSeen(key, seen_keys) THEN Skip(rec, "direct")
                      ELSE Emit(rec, "direct")
    /\ ui' = 1
    /\ UNCHANGED <<msgs, mi, urls>>
    /\ UNCHANGED <<urlvars, resvars, rejected, pdfvars, numvars>>

\* lines 934-946: one u of the second "for u in urls"
M_DirectPdf ==
    /\ mpc = "direct"
    /\ ui <= Len(urls)
    /\ \E o \in ProbeOutcomes, r \in PdfResults :
           LET u     == urls[ui]
               got   == fetch_pdf_title_direct(r)
               title == IF Truthy(got.t) THEN got.t ELSE PDF_ARTICLE
               key   == DedupeKey(title, got.d)
               rec   == Record(u, clean_text_strip_html(title), got.d, key, "PDF(URL)", got.t)
           IN IF ~is_direct_pdf_url(u, o)
              THEN /\ mpc' = "direct"
                   /\ UNCHANGED <<seen_keys, processed, emitted, skips, store, nlog>>
              ELSE IF InSeen(key, seen_keys) THEN Skip(rec, "direct")
              ELSE Emit(rec, "direct")
    /\ ui' = ui + 1
    /\ UNCHANGED <<msgs, mi, urls>>
    /\ UNCHANGED <<urlvars, resvars, rejected, pdfvars, numvars>>

\* the message is done; on to the next one
M_MessageEnd ==
    /\ mpc = "direct"
    /\ ui > Len(urls)
    /\ mi' = mi + 1
    /\ mpc' = "next"
    /\ UNCHANGED <<msgs, urls, ui, seen_keys, processed, emitted, skips, store, nlog>>
    /\ UNCHANGED <<urlvars, resvars, rejected, pdfvars, numvars>>

MainNext ==
    \/ M_NextMessage
    \/ M_Done
    \/ M_Link
    \/ M_LinksEnd
    \/ M_UploadedPdf
    \/ M_DirectPdf
    \/ M_MessageEnd

RECURSIVE ScholarlyOnly(_)
ScholarlyOnly(out) ==
    IF out = <<>> THEN <<>>
    ELSE (IF is_scholarly_url(Head(out)) THEN <<Head(out)>> ELSE <<>>)
             \o ScholarlyOnly(Tail(out))

RECURSIVE AddPages(_, _)
\* the store after upserts of pages, one page for one URL
AddPages(st, pages) ==
    IF pages = <<>> THEN st
    ELSE AddPages(IF \E i \in 1..Len(st) : st[i].url = Head(pages).url
                  THEN st ELSE Append(st, Head(pages)),
                  Tail(pages))

RECURSIVE LeftBehind(_, _)
\* the pages an earlier run over the messages run[i..] left in the database
LeftBehind(run, i) ==
    IF i > Len(run) THEN <<>>
    ELSE LET links == ScholarlyOnly(CanonUnique(run[i].cands, <<>>))
             pdfs  == get_pdf_files(run[i])
         IN [k \in 1..Len(links) |-> [url |-> links[k], title |-> TGood]]
              \o (IF pdfs = <<>> THEN <<>>
                  ELSE << [url |-> pdf_message_permalink(SlackLink(i)),
                           title |-> FileNameTitle(pdfs[1])] >>)
              \o LeftBehind(run, i + 1)

\* the longest window a re-run goes over
MaxRerunMsgs == 1

\* a run of main: over a window of the channel against an empty database,
\* or over a window of at most MaxRerunMsgs messages against the database
\* an earlier run over the same messages left
Init ==
    /\ UrlIdle
    /\ PdfIdle
    /\ NumIdle
    /\ FORCE_API_TITLES \in BOOLEAN
    /\ rpc = "idle"
    /\ rurl = None
    /\ rsoup = BlankPage
    /\ rcur = None
    /\ rres = NoResult
    /\ rlog = <<>>
    /\ msgs \in Runs
    /\ mi = 1
    /\ mpc = "next"
    /\ urls = <<>>
    /\ ui = 0
    /\ seen_keys = {}
    /\ processed = 0
    /\ emitted = <<>>
    /\ skips = <<>>
    /\ store \in {<<>>} \cup (IF Len(msgs) <= MaxRerunMsgs
                           THEN {AddPages(<<>>, LeftBehind(msgs, 1))} ELSE {})
    /\ nlog = <<>>
    /\ rejected = {}

Next == MainNext

Spec == Init /\ [][Next]_vars

-----------------------------------------------------------------------------
(* extract_pdf_title_from_bytes: metadata, DOI in the text, first page *)

\* the most lines a first page has
MaxPageLines == 4

\* lines of a first page, stripped; the "." that ends a sentence is an atom
LnAbstract == <<"ABSTRACT">>
LnAuthors == <<"Smith J, Doe A", ".">>
LnTitle == <<"A Novel Method for Protein Folding Prediction">>
LnReceived == <<"Received 3 Jan 2023">>
LnNumbers == <<"2023 45 112 9981">>

PageLines == {LnAbstract, LnAuthors, LnTitle, LnReceived, LnNumbers}

\* md.title of the document information
MdJunk == <<"Open Access", " ", "Article">>
MdTitles == {None, <<"PDF">>, TGood, MdJunk}

\* a document: whether PdfReader reads it, its metadata title, the DOI in
\* the text of its first pages with the answer of Crossref for it, and the
\* non-blank lines of page 1
PdfDocs ==
    {d \in [ok : BOOLEAN, md : MdTitles, doi : {None, D1},
            cr : {[fails |-> 0, t |-> None], [fails |-> 0, t |-> TGood]},
            lines : UNION {[1..n -> PageLines] : n \in 0..MaxPageLines}] :
        d.doi = None => d.cr.t = None}

\* sum(c.isupper() for c in s), of the atoms of a page line
UpperCount(a) ==
    CASE a = "ABSTRACT" -> 8
      [] a = "Smith J, Doe A" -> 4
      [] a = "A Novel Method for Protein Folding Prediction" -> 6
      [] a = "Received 3 Jan 2023" -> 2
      [] OTHER -> 0

RECURSIVE Uppers(_)
Uppers(s) == IF s = <<>> THEN 0 ELSE UpperCount(Head(s)) + Uppers(Tail(s))

RECURSIVE Commas(_)
\* s.count(",")
Commas(s) ==
    IF s = <<>> THEN 0
    ELSE (IF Head(s) = "Smith J, Doe A" THEN 1 ELSE 0) + Commas(Tail(s))

\* any(s in t.lower() for s in junk_flags)
HasJunkFlag(t) == \E i \in 1..Len(t) : t[i] = "Open Access"

\* any(r.search(s) for r in boiler_res), or "©", "open access", "license" in s
MatchesBoiler(s) == \E i \in 1..Len(s) : s[i] \in {"Received 3 Jan 2023", "Open Access"}

is_boiler(s) == MatchesBoiler(s) \/ CharLen(s) < 8 \/ CharLen(s) > 220

\* letters >= 6 and more than 90% of them capitals
looks_all_caps(s) == Letters(s) >= 6 /\ 10 * Uppers(s) > 9 * Letters(s)

RECURSIVE find_abstract_idx(_, _)
\* the index (from 1) of the first line that is the heading "abstract", in
\* any case, looking from line i on; 0 for None
find_abstract_idx(lst, i) ==
    IF i > Len(lst) THEN 0
    ELSE IF lst[i] = LnAbstract THEN i
    ELSE find_abstract_idx(lst, i + 1)

\* "lines[:abs_idx] if abs_idx is not None else lines[:40]"
search_lines(lines, abs_idx) ==
    IF abs_idx # 0 THEN SubSeq(lines, 1, abs_idx - 1)
    ELSE SubSeq(lines, 1, IF Len(lines) < 40 THEN Len(lines) ELSE 40)

RECURSIVE NotBoiler(_)
\* [ln for ln in search_lines if not is_boiler(ln)]
NotBoiler(ls) ==
    IF ls = <<>> THEN <<>>
    ELSE (IF is_boiler(Head(ls)) THEN <<>> ELSE <<Head(ls)>>) \o NotBoiler(Tail(ls))

RECURSIVE JoinLines(_)
\* " ".join(block_lines)
JoinLines(ls) ==
    IF Len(ls) = 1 THEN ls[1] ELSE ls[1] \o <<" ">> \o JoinLines(Tail(ls))

\* re.search(r"\b[A-Z]\.\s*[A-Z]\.|,| and ", next_line)
LooksLikeAuthors(ln) == Commas(ln) > 0

\* a score is the fraction num/den; -1.0 is -1/1
Scored(b, num, den) == [block |-> b, num |-> num, den |-> den]
Exceeds(a, b) == a.num * b.den > b.num * a.den

\* "len(block) * 1.0 + alpha_ratio(block) * 50.0", plus 10 when the line
\* after the block looks like an author list
BlockScore(block, next_line) ==
    Scored(block,
           CharLen(block) * CharLen(block) + 50 * Letters(block)
               + (IF LooksLikeAuthors(next_line) THEN 10 * CharLen(block) ELSE 0),
           CharLen(block))

\* one pass of the inner loop for the block that starts at line i and
\* spans span lines
ConsiderBlock(cand, i, span, block, best) ==
    IF is_boiler(block) \/ CharLen(block) < 10 \/ CharLen(block) > 200
       \/ looks_all_caps(block)
    THEN best
    ELSE IF Exceeds(BlockScore(block, IF i + span <= Len(cand) THEN cand[i + span]
                                      ELSE <<>>), best)
    THEN BlockScore(block, IF i + span <= Len(cand) THEN cand[i + span] ELSE <<>>)
    ELSE best

RECURSIVE BestBlock(_, _, _)
\* the loops over i and span, step k being i = k div 3 + 1, span = k mod 3 + 1
BestBlock(cand, k, best) ==
    IF k >= 3 * Len(cand) THEN best.block
    ELSE IF (k \div 3) + (k % 3) + 1 > Len(cand) THEN BestBlock(cand, k + 1, best)
    ELSE BestBlock(cand, k + 1,
                   ConsiderBlock(cand, (k \div 3) + 1, (k % 3) + 1,
                                 JoinLines(SubSeq(cand, (k \div 3) + 1,
                                                  (k \div 3) + (k % 3) + 1)),
                                 best))

RECURSIVE SplitSentences(_, _)
\* re.split(r"[\.!?]+", candidate), each part stripped, the empty ones dropped
SplitSentences(s, cur) ==
    IF s = <<>> THEN (IF Strip(cur, {" "}) = <<>> THEN <<>> ELSE <<Strip(cur, {" "})>>)
    ELSE IF Head(s) = "."
    THEN (IF Strip(cur, {" "}) = <<>> THEN <<>> ELSE <<Strip(cur, {" "})>>)
             \o SplitSentences(Tail(s), <<>>)
    ELSE SplitSentences(Tail(s), Append(cur, Head(s)))

\* "len(s) + alpha_ratio(s) * 60 - penalize_boiler(s)", plus 10 unless
\* s.islower(), minus 2 for each comma
SentenceScore(p) ==
    Scored(p,
           CharLen(p) * CharLen(p) + 60 * Letters(p)
               + CharLen(p) * ((IF Uppers(p) = 0 /\ Letters(p) > 0 THEN 0 ELSE 10)
                               - 30 * Cardinality({i \in 1..Len(p) : MatchesBoiler(<<p[i]>>)})
                               - 2 * Commas(p)),
           CharLen(p))

RECURSIVE BestSentence(_, _)
BestSentence(parts, best) ==
    IF parts = <<>> THEN best.block
    ELSE IF CharLen(Head(parts)) < 10 \/ CharLen(Head(parts)) > 200
            \/ looks_all_caps(Head(parts))
    THEN BestSentence(Tail(parts), best)
    ELSE BestSentence(Tail(parts),
                      IF Exceeds(SentenceScore(Head(parts)), best)
                      THEN SentenceScore(Head(parts)) ELSE best)

\* _pick_best_sentence
pick_best_sentence(candidate) ==
    Strip(BestSentence(SplitSentences(candidate, <<>>), Scored(candidate, -1, 1)),
          {" ", "."})

RECURSIVE FirstTextLine(_)
\* "for ln in cand_lines: if not looks_numericish(ln): return ..., None"
FirstTextLine(cand) ==
    IF cand = <<>> THEN [t |-> None, d |-> None]
    ELSE IF ~looks_numericish(Head(cand))
    THEN [t |-> pick_best_sentence(Head(cand)), d |-> None]
    ELSE FirstTextLine(Tail(cand))

\* the end of the function, best_block being None or a block
TitleOfBlock(cand, best_block) ==
    IF best_block # None /\ ~looks_numericish(best_block)
    THEN [t |-> IF pick_best_sentence(best_block) # <<>>
                   /\ ~looks_numericish(pick_best_sentence(best_block))
                THEN pick_best_sentence(best_block) ELSE best_block,
          d |-> None]
    ELSE FirstTextLine(cand)

\* the heuristics on the lines of page 1
TitleFromPage(cand) == TitleOfBlock(cand, BestBlock(cand, 0, Scored(None, -1, 1)))

\* "if t and 10 <= len(t) <= 220" and no junk flag
UsableMetadataTitle(t) ==
    t # <<>> /\ CharLen(t) >= 10 /\ CharLen(t) <= 220 /\ ~HasJunkFlag(t)

extract_pdf_title_from_bytes(doc) ==
    IF ~doc.ok THEN [t |-> None, d |-> None]
    ELSE IF doc.md # None /\ UsableMetadataTitle(CollapseWs(doc.md))
    THEN [t |-> CollapseWs(doc.md), d |-> None]
    ELSE IF doc.doi # None /\ try_crossref_title(doc.cr) # None
    THEN [t |-> try_crossref_title(doc.cr), d |-> doc.doi]
    ELSE IF doc.lines = <<>> THEN [t |-> None, d |-> None]
    ELSE TitleFromPage(NotBoiler(search_lines(doc.lines, find_abstract_idx(doc.lines, 1))))

\* one call, on any document
PdfInit ==
    /\ UrlIdle
    /\ ResolverIdle
    /\ MainIdle
    /\ NumIdle
    /\ pdf \in PdfDocs
    /\ ptitle = [t |-> None, d |-> None]
    /\ ppc = "start"

P_Extract ==
    /\ ppc = "start"
    /\ ptitle' = extract_pdf_title_from_bytes(pdf)
    /\ ppc' = "returned"
    /\ UNCHANGED <<pdf, urlvars, resvars, mainvars, numvars>>

SpecPdf == PdfInit /\ [][P_Extract]_vars

-----------------------------------------------------------------------------
(* looks_numericish on its own *)

\* the most atoms of a string it is called on
MaxTitleAtoms == 3

\* words, numbers, codes and separators a candidate title is made of
TitleAtoms == {"on", "abc", "A", "AB", "1", "10", "123", " ", "-", "2024.01.05", "S0092"}

NumericInputs == UNION {[1..n -> TitleAtoms] : n \in 0..MaxTitleAtoms}

\* one call, on any string
NumInit ==
    /\ UrlIdle
    /\ ResolverIdle
    /\ MainIdle
    /\ PdfIdle
    /\ nstr \in NumericInputs
    /\ nrej = FALSE
    /\ npc = "start"

N_Test ==
    /\ npc = "start"
    /\ nrej' = looks_numericish(nstr)
    /\ npc' = "returned"
    /\ UNCHANGED <<nstr, urlvars, resvars, mainvars, pdfvars>>

SpecNumeric == NumInit /\ [][N_Test]_vars

-----------------------------------------------------------------------------
(* The cascade of SpecResolve and the call main makes are the same function *)

ResolverAgrees ==
    /\ (rpc = "returned") =>
           [t |-> rres.title, d |-> rres.doi]
               \in resolve_best_title_and_doi_for_url(rurl, FORCE_API_TITLES)
    /\ (rpc = "raised") =>
           [t |-> Raised, d |-> None]
               \in resolve_best_title_and_doi_for_url(rurl, FORCE_API_TITLES)

-----------------------------------------------------------------------------
(* Properties of main *)

\* C1: in a run of main no two records handed to notion_upsert share the
\* same DedupeKey (the DOI if there is one, else the normalized title).
C1_NoTwoEmittedShareKey ==
    \A i, j \in 1..Len(emitted) :
        i # j => DedupeKey(emitted[i].title, emitted[i].doi)
                     # DedupeKey(emitted[j].title, emitted[j].doi)

\* C2: notion_upsert issues a create only when the store holds no entry
\* that matches the URL, holds the DOI in its URL or has the same title.
C2_CreateOnlyWhenNoMatch ==
    \A i \in 1..Len(nlog) : nlog[i].op = "create" => ~nlog[i].existed

\* C8: no emitted record, of any of the three branches, has a title with
\* 60% or more digits among its alphanumeric characters.
C8_NoNumericTitleEmitted ==
    \A i \in 1..Len(emitted) :
        Letters(emitted[i].title) + Digits(emitted[i].title) > 0
            => ~DigitShareAtLeast60(emitted[i].title)

\* C9: when two messages of a run carry the same link, one of them with
\* ?ref=homepage added, exactly one record is emitted for the link.
C9_OneRecordForSharedLink ==
    LET resolved(m) ==
            \E r \in Range(emitted) \cup Range(skips) :
                r.kind = "LINK" /\ r.msg = m /\ r.url = U_Article
    IN (mpc = "done" /\ msgs = SubSeq(Channel, 1, 2) /\ resolved(1) /\ resolved(2)) =>
           Cardinality({i \in 1..Len(emitted) :
                           emitted[i].kind = "LINK" /\ emitted[i].url = U_Article}) = 1

\* C11: a failure of the store while a record is persisted (the query, the
\* create or the update failing) never aborts the run, and the record is
\* skipped: main does not stop on a failed request, and a record whose query
\* failed (a create although a matching page existed) is not written.
C11_StoreFailureNeverAborts ==
    /\ (mpc = "crashed" /\ nlog # <<>>) => Last(nlog).write \notin {"error", "none"}
    /\ \A i \in 1..Len(nlog) :
           (nlog[i].op = "create" /\ nlog[i].existed) => nlog[i].write # "ok"

\* C12: main calls resolve_best_title_and_doi_for_url only on URLs that
\* is_scholarly_url accepted and whose content-type probe did not report an
\* image, video or audio type: no URL the filter dropped is resolved.
C12_OnlyKeptUrlsResolved ==
    \A r \in Range(emitted) \cup Range(skips) :
        r.kind = "LINK" =>
            /\ is_scholarly_url(r.url)
            /\ [msg |-> r.msg, url |-> r.url] \notin rejected

C12_Witness ==
    \E r \in Range(emitted) \cup Range(skips), x \in rejected :
        r.kind = "LINK" /\ x.msg = r.msg /\ x.url # r.url

\* C13: a record whose key is in seen_keys is skipped with no store query
\* or write and seen_keys unchanged; a record whose key is not in seen_keys
\* has its key added and is handed to notion_upsert exactly once.
C13_SeenSetFrame ==
    [][ /\ (skips' # skips) =>
               /\ Last(skips').key \in seen_keys
               /\ UNCHANGED <<seen_keys, emitted, store, nlog, processed>>
        /\ (emitted' # emitted) =>
               /\ emitted' = Append(emitted, Last(emitted'))
               /\ Last(emitted').key \notin seen_keys
               /\ seen_keys' = seen_keys \cup {Last(emitted').key}
               /\ Len(nlog') = Len(nlog) + 1
               /\ Last(nlog').url = Last(emitted').url
               /\ Last(nlog').title = Last(emitted').title
               /\ UNCHANGED skips
        /\ (nlog' # nlog \/ seen_keys' # seen_keys) => emitted' # emitted ]_vars

C13_Witness ==
    /\ skips # <<>>
    /\ emitted # <<>>
    /\ \E i \in 1..Len(emitted) : emitted[i].key = skips[1].key

\* C14: for a PDF with no usable metadata title and no DOI whose first page
\* reads 'ABSTRACT', 'Smith J, Doe A.', 'A Novel Method for Protein Folding
\* Prediction', 'Received 3 Jan 2023', extract_pdf_title_from_bytes returns
\* the title line: not null, not the author line, not the boilerplate.
C14_TitleBelowAbstractHeading ==
    (/\ ppc = "returned"
     /\ pdf.ok
     /\ pdf.md = None \/ ~UsableMetadataTitle(CollapseWs(pdf.md))
     /\ pdf.doi = None
     /\ pdf.lines = <<LnAbstract, LnAuthors, LnTitle, LnReceived>>)
        => ptitle = [t |-> LnTitle, d |-> None]

\* C15: when the URL holds a DOI and the DOI lookup returns a title, the
\* cascade returns at once with that title (cleaned) and that DOI: the last
\* request of the call is the lookup, and no page was fetched or parsed.
C15_DoiTitleShortCircuits ==
    (rpc = "returned" /\ rres.via = "doi_url") =>
        /\ rres.doi = DOI_RE_search(rurl)
        /\ rres.doi # None
        /\ rres.title \in {clean_text_strip_html(t) : t \in ApiTitles}
        /\ Last(rlog) \in DoiLookupCalls
        /\ FirstCall(rlog, {"html_get"}) = 0
        /\ rsoup = BlankPage
        /\ rcur = None

C15_Witness ==
    /\ rpc = "returned"
    /\ rres.via = "doi_url"
    /\ rurl = U_Doi
    /\ rres = [title |-> TGood, doi |-> D1, via |-> "doi_url"]
    /\ Last(rlog) = "crossref_doi"

\* the requests of one kind in a request log
Calls(log, kind) == Cardinality({i \in 1..Len(log) : log[i] = kind})

\* the calls of fetch_and_parse
Fetches(log) == Calls(log, "html_get")

\* C16: one call of the cascade fetches the page at most twice, the fetch of
\* the URL and at most one fetch of the rel=canonical link the fetched page
\* declares; the canonical link of the page fetched second is not followed.
C16_AtMostTwoFetches ==
    /\ Fetches(rlog) <= 2
    /\ (rpc \in {"start", "doi", "force", "fetch"}) => Fetches(rlog) = 0
    /\ (rpc = "hop") => Fetches(rlog) = 1
    /\ (Fetches(rlog) = 2) => rlog[FirstCall(rlog, {"html_get"}) + 1] = "html_get"

\* a call that ended after the hop, on a second page that declares a
\* canonical link other than its own URL
C16_Witness ==
    /\ rpc = "returned"
    /\ Fetches(rlog) = 2
    /\ Truthy(rsoup.canonical)
    /\ Strip(rsoup.canonical, WHITESPACE) # rcur
    /\ rcur # rurl

\* C17: a link whose title came out numeric-looking through a heuristic
\* path (no DOI was confirmed) has had the stages from the page fetch on run
\* exactly once more, in a forced retry, before main put the placeholder
\* naming the host in its place.
C17_NumericTitleRetriedOnce ==
    \A r \in Range(emitted) \cup Range(skips) :
        (r.kind = "LINK" /\ r.doi = None /\ r.title = ArticleOn(r.url)) => r.calls = 2

\* C18: every title the cascade returns, whichever stage produced it, is at
\* most 300 characters long and has its whitespace collapsed.
C18_TitleAtMost300Collapsed ==
    (rpc = "returned") =>
        /\ CharLen(rres.title) <= 300
        /\ CollapseWs(rres.title) = rres.title

\* C19: content of an unexpected shape met by a parsing stage (here a JSON-LD
\* object whose @type is not a string) counts as no result of that stage:
\* the cascade goes on and no exception leaves it.
C19_MalformedContentIsNoResult ==
    (rpc # "idle" /\ rsoup.jsonld.type = "list") => rpc # "raised"

\* the Crossref DOI requests a step of the cascade adds to the log
NewDoiRequests == Calls(rlog', "crossref_doi") - Calls(rlog, "crossref_doi")

\* C20: an adapter call ends after a bounded number of attempts, a call of
\* try_crossref_title after at most retries+1 requests, gives None for a
\* failed request or a payload without a title, and raises nothing: the
\* stages that call try_crossref_title once add at most retries+1 requests,
\* the publisher stage (two calls at most) twice that, the only exception
\* that ends a call is the one of the JSON-LD parser, and a DOI stage whose
\* lookups all failed hands over to the next stage after retries+1 requests.
C20_AdaptersBoundedNeverRaise ==
    [][ /\ NewDoiRequests <= 2 * (CROSSREF_RETRIES + 1)
        /\ (rpc \in {"doi", "pagedoi"}) => NewDoiRequests <= CROSSREF_RETRIES + 1
        /\ (rpc' = "raised") =>
               rpc \in {"publisher", "page"} /\ rsoup.jsonld.type = "list"
        /\ (rpc = "doi" /\ DOI_RE_search(rurl) # None /\ rpc' # "returned")
               => /\ rpc' \in {"force", "fetch"}
                  /\ NewDoiRequests = CROSSREF_RETRIES + 1 ]_vars

\* every attempt of the lookup failed and the cascade went on to the fetch
C20_Witness ==
    /\ rpc = "fetch"
    /\ rurl = U_Doi
    /\ Calls(rlog, "crossref_doi") = CROSSREF_RETRIES + 1

\* the letters and digits of a string, and its share of digits
Alnum(t) == Letters(t) + Digits(t)
MoreThan60PercentDigits(t) == 10 * Digits(t) > 6 * Alnum(t)
SixtyPercentDigitsOrMore(t) == 10 * Digits(t) >= 6 * Alnum(t)
MatchesIdPattern(t) ==
    StartsWithDateStamp(Strip(t, WHITESPACE)) \/ StartsWithShortCode(Strip(t, WHITESPACE))

\* C21 as stated: looks_numericish rejects a non-empty string exactly when
\* more than 60% of its letters and digits are digits or it matches the
\* date-stamp or the short-code pattern.
C21_RejectsAbove60Percent ==
    (npc = "returned" /\ nstr # <<>>) =>
        (nrej <=> (MoreThan60PercentDigits(nstr) \/ MatchesIdPattern(nstr)))

\* C21 amended: looks_numericish rejects a string that has a letter or a
\* digit exactly when 60% or more of its letters and digits are digits or
\* it matches the date-stamp or the short-code pattern, and it rejects
\* every string that has neither a letter nor a digit.
C21_RejectsAtLeast60Percent ==
    (npc = "returned") =>
        /\ (Alnum(nstr) > 0) =>
               (nrej <=> (SixtyPercentDigitsOrMore(nstr) \/ MatchesIdPattern(nstr)))
        /\ (Alnum(nstr) = 0) => nrej

\* a string with exactly 60% digits and no pattern, rejected
C21_Witness ==
    /\ npc = "returned"
    /\ nstr = <<"on", "123">>
    /\ 10 * Digits(nstr) = 6 * Alnum(nstr)
    /\ ~MatchesIdPattern(nstr)
    /\ nrej

\* C22: within one message a canonical URL is handed to notion_upsert at
\* most once: a URL the link step emitted is not emitted again by the
\* direct-PDF step of the same message, so the page the link step wrote is
\* not overwritten with the title of the direct-PDF step.
C22_UrlEmittedOncePerMessage ==
    \A i, j \in 1..Len(emitted) :
        (i < j /\ emitted[i].msg = emitted[j].msg /\ emitted[i].kind = "LINK")
            => emitted[j].url # emitted[i].url

\* the records notion_upsert wrote (emitted[i] is the record of nlog[i])
Persisted == {i \in 1..Len(nlog) : nlog[i].write = "ok"}

\* C23: a key is in seen_keys only if a record with that key was written to
\* the store (so a record that follows a failed write with the same key is
\* handed to notion_upsert, not skipped), and processed counts the written
\* records only.
C23_SeenOnlyIfPersisted ==
    /\ \A k \in seen_keys : \E i \in Persisted : emitted[i].key = k
    /\ \A i \in 1..Len(skips) : \E j \in Persisted : emitted[j].key = skips[i].key
    /\ processed = Cardinality(Persisted)


\* C24: two inputs of one run that have different canonical URLs, no DOI and
\* different resolved titles are both emitted, also when their titles were
\* replaced by a placeholder: no record is skipped because of an emitted
\* record of another URL and another resolved title, unless its own URL was
\* emitted all the same
DroppedByPlaceholder(s, e) ==
    /\ e.key = s.key
    /\ e.url # s.url
    /\ ~Truthy(e.doi) /\ ~Truthy(s.doi)
    /\ e.raw # s.raw
    /\ \A j \in 1..Len(emitted) : emitted[j].url # s.url

C24_PlaceholderNeverDropsDistinctWork ==
    \A i \in 1..Len(skips), j \in 1..Len(emitted) : ~DroppedByPlaceholder(skips[i], emitted[j])

=========================================================================
